---- MODULE Spec2Model ----
(***************************************************************************)
(* Parallel.GAMIT integrity tools: the RINEX inventory checks, the data    *)
(* gap search, the receiver-serial consistency check, the job dispatch     *)
(* callback, the station rename/merge and the station information editor.  *)
(*                                                                         *)
(* Time is counted in ticks, TicksPerDay ticks to a calendar day; a day is *)
(* its modified Julian day number.  A timestamp t lies on day              *)
(* t \div TicksPerDay, and the date string 'yyyy/mm/dd' a query is given   *)
(* for day d denotes the timestamp d * TicksPerDay (midnight).             *)
(***************************************************************************)
EXTENDS Integers, Sequences, FiniteSets, TLC

\* ------------------------------------------------------------------------
\* Bounds
\* ------------------------------------------------------------------------
TicksPerDay == 2
MaxDay == 6
MaxIgnore == 2
MaxSerialDay == 3
MaxRecords == 2
MaxRinexDay == 3
MaxStations == 2
PoolSize == 2
MaxFiles == 2
MaxInfoDay == 3
MaxEditDay == 2
MaxInfoRecords == 3
MaxSpatialStations == 3
MaxSolutions == 2
MaxCheckSecond == 5
MaxCheckRecords == 3
MaxCheckRinex == 2
MaxSessions == 3
MaxOtherFiles == 1
MaxDeleteDay == 3
MaxValidations == 2

\* year of the first day of the default date filter; the days of the model
\* are days of this year
BaseYear == 1980

\* DateEnd of an open station information record (9999 999)
OpenDateEnd == 9999

\* the tolerance of the spatial check, in metres
Tolerance == 100

Days == 1..MaxDay

VARIABLES
    \* ---- data gap search (GetGaps, GetStnGaps) ----
    g_tbl,          \* rinex_proc rows of the station
    g_args,         \* [start_date, end_date, ignore_val] of the call
    missing_doys,   \* GetGaps: first component of the result
    possible_doys,  \* GetGaps: second component of the result
    gaps,           \* GetStnGaps: the reported runs <<gap_begin, gap_end, days>>
    g_done,         \* which of the two entry points have run
    \* ---- one compare_stninfo_rinex job ----
    c_stninfo,      \* station information records of the station
    c_job,          \* arguments of the job, and whether the database opens
    c_result,       \* <<>> before the job ran, <<result>> after
    \* ---- StnInfoRinexIntegrity for one station ----
    s_stninfo,      \* station information records of the station
    s_rnxtbl,       \* rinex_proc rows of the station in the date range
    s_pending,      \* submitted jobs that have not completed
    differences,    \* the global list the callback appends to
    s_pc,           \* "submit", "wait", "done"
    s_out,          \* what was written to stdout, in order
    \* ---- catalog and archive of the RINEX integrity check ----
    rinex,          \* the rinex table
    rinex0,         \* the rinex table before the check
    archive,        \* the paths that exist in the archive
    archive0,       \* the paths that existed before the operation
    events,         \* the events table, in insertion order
    \* ---- one check_rinex_stn call ----
    k_args,         \* station, date range and what fails during the call
    k_result,       \* <<>> before the call returned, <<result>> after
    \* ---- CheckRinexIntegrity ----
    d_stnlist,      \* the stations of the batch
    d_jobs,         \* per station: state and result of its job
    rinex_css,      \* the global list CheckRinexIntegrity prints from
    d_pc,           \* "submit", "wait", "done"
    d_out,          \* what the batch summary printed
    \* ---- station table and station information table ----
    stations,       \* the stations table
    stationinfo,    \* the stationinfo table
    \* ---- RenameStation ----
    r_args,         \* source and destination station, date range
    original_rs,    \* the rows selected for the transfer
    r_i,            \* index in original_rs of the file being processed
    r_pc,           \* position in RenameStation
    r_tx,           \* the number of transactions begun and not yet ended
    r_snapshot,     \* the rinex table when the open transaction began
    r_failed,       \* <<>>, or <<i, step>> once that step of file i raised
    r_log,          \* the begin/commit/rollback calls made, in order
    \* ---- StationInfoEdit ----
    e_stn,          \* the station the editor was started for, <<>> when not running
    StnInfo,        \* the records the editor loaded last, in order of DateStart
    menu,           \* the menu on display: title, record_index, items, edited_fields
    e_last,         \* what the editor did last
    \* ---- CheckSpatialCoherence ----
    sc_stations,    \* the stations table with the position of each station
    ppp_soln,       \* the PPP solutions
    ppp_soln_excl,  \* the excluded PPP solutions
    sc_args,        \* station, date range and disposition of the call
    sc_out,         \* the lines CheckSpatialCoherence wrote, <<>> before the call
    \* ---- StnInfoCheck ----
    rinex_proc,     \* the rinex_proc rows StnInfoCheck counts
    si_stnlist,     \* the stations to check, in order
    si_py,          \* the interpreter the program runs under
    si_frames,      \* Config.options['frames']: the reference frames and their dates
    si_i,           \* index in si_stnlist of the station checked next
    si_pc,          \* "idle", "running", "done", "raised"
    si_out,         \* per station checked: the lines written about it
    si_queries,     \* per station checked: the gaps rinex_proc was queried for
    \* ---- Utils.copyfile and Utils.move ----
    fs,             \* the file system: the file at each path that exists
    fs0,            \* the file system when the call began
    f_args,         \* op ("copyfile" or "move"), src and dst of the call
    f_pc,           \* position in copyfile / move
    f_value,        \* the counter of the generator, <<>> before its first next()
    f_dst,          \* the candidate path next(dst_gen) returned last
    f_yielded,      \* the paths the generator yielded, in order
    f_wrote,        \* the paths the call created a file at
    f_others,       \* the paths other workers created a file at during the call
    f_ret,          \* <<>>, or <<path>> once the call returned
    \* ---- DeleteRinex ----
    dr_args,        \* station list, date range, completion limit, the rows whose removal fails
    dr_i,           \* index in the station list of the station processed next
    dr_pc,          \* "idle", "running", "done", "raised"
    dr_out,         \* the lines DeleteRinex wrote
    \* ---- validation of an edited field (Menu.validate) ----
    val_items,          \* field -> displayed value of the edit menu
    val_edited_fields,  \* field -> <<>> (no key) or <<value>>
    val_position,       \* index of the selected item, 0-based
    val_edit_field,     \* <<>> or <<text passed to validate>>
    val_result,         \* "none", "True" or "False": what validate returned
    val_calls,          \* number of calls of validate so far
    \* ---- receiver serial check over a list of stations ----
    sl_stninfo,         \* per station of the list: its station information records
    sl_rnxtbl,          \* per station of the list: its rinex_proc rows in the range
    sl_i,               \* index of the station being checked
    sl_pending,         \* the submitted jobs that have not completed
    sl_pc,              \* "idle", "submit", "wait" or "done"
    sl_out,             \* per station checked: the lines written for it
    \* ---- two workers calling copyfile with the same destination ----
    tc_fs,              \* the file system: path -> file
    tc_pc,              \* per worker: where its call of copyfile is
    tc_value,           \* per worker: the counter of its generator, <<>> before the first next()
    tc_dst,             \* per worker: <<>> or <<candidate path>>
    tc_ret,             \* per worker: <<>> or <<path returned>>
    tc_created          \* the paths at which a worker created a file

gapVars == <<g_tbl, g_args, missing_doys, possible_doys, gaps, g_done>>

cmpVars == <<c_stninfo, c_job, c_result>>

serVars == <<s_stninfo, s_rnxtbl, s_pending, differences, s_pc, s_out>>

catVars == <<rinex, rinex0, archive, archive0, events>>

chkVars == <<k_args, k_result>>

dspVars == <<d_stnlist, d_jobs, rinex_css, d_pc, d_out>>

stnVars == <<stations, stationinfo>>

renVars == <<r_args, original_rs, r_i, r_pc, r_tx, r_snapshot, r_failed, r_log>>

edtVars == <<e_stn, StnInfo, menu, e_last>>

spaVars == <<sc_stations, ppp_soln, ppp_soln_excl, sc_args, sc_out>>

sicVars == <<rinex_proc, si_stnlist, si_py, si_frames, si_i, si_pc, si_out, si_queries>>

fsVars == <<fs, fs0, f_args, f_pc, f_value, f_dst, f_yielded, f_wrote, f_others, f_ret>>

delVars == <<dr_args, dr_i, dr_pc, dr_out>>

valVars == <<val_items, val_edited_fields, val_position, val_edit_field, val_result, val_calls>>

slVars == <<sl_stninfo, sl_rnxtbl, sl_i, sl_pending, sl_pc, sl_out>>

tcVars == <<tc_fs, tc_pc, tc_value, tc_dst, tc_ret, tc_created>>

vars == <<gapVars, cmpVars, serVars, catVars, chkVars, dspVars, stnVars, renVars, edtVars, spaVars, sicVars, fsVars, delVars, valVars, slVars, tcVars>>

\* the variables each part of the program leaves alone
notGapVars == <<cmpVars, serVars, catVars, chkVars, dspVars, stnVars, renVars, edtVars, spaVars, sicVars, fsVars, delVars, valVars, slVars, tcVars>>

notCmpVars == <<gapVars, serVars, catVars, chkVars, dspVars, stnVars, renVars, edtVars, spaVars, sicVars, fsVars, delVars, valVars, slVars, tcVars>>

notSerVars == <<gapVars, cmpVars, catVars, chkVars, dspVars, stnVars, renVars, edtVars, spaVars, sicVars, fsVars, delVars, valVars, slVars, tcVars>>

notChkVars == <<gapVars, cmpVars, serVars, dspVars, stnVars, renVars, edtVars, spaVars, sicVars, fsVars, delVars, valVars, slVars, tcVars>>

notRenVars == <<gapVars, cmpVars, serVars, chkVars, dspVars, events, edtVars, spaVars, sicVars, fsVars, delVars, valVars, slVars, tcVars>>

notEdtVars == <<gapVars, cmpVars, serVars, catVars, chkVars, dspVars, renVars, spaVars, sicVars, fsVars, delVars, valVars, slVars, tcVars>>

serOther == <<s_stninfo, s_rnxtbl, s_pending, s_pc, s_out>>

notDspVars == <<gapVars, cmpVars, chkVars, serOther, stnVars, renVars, edtVars, spaVars, sicVars, fsVars, delVars, valVars, slVars, tcVars>>

notTcVars == <<gapVars, cmpVars, serVars, catVars, chkVars, dspVars, stnVars, renVars, edtVars, spaVars, sicVars, fsVars, delVars, valVars, slVars>>

notSlVars == <<gapVars, cmpVars, serVars, catVars, chkVars, dspVars, stnVars, renVars, edtVars, spaVars, sicVars, fsVars, delVars, valVars, tcVars>>

notValVars == <<gapVars, cmpVars, serVars, catVars, chkVars, dspVars, stnVars, renVars, edtVars, spaVars, sicVars, fsVars, delVars, slVars, tcVars>>

notDelVars == <<gapVars, cmpVars, serVars, chkVars, dspVars, stnVars, renVars, edtVars, spaVars, sicVars, fsVars, valVars, slVars, tcVars>>

notFsVars == <<gapVars, cmpVars, serVars, catVars, chkVars, dspVars, stnVars, renVars, edtVars, spaVars, sicVars, delVars, valVars, slVars, tcVars>>

notSicVars == <<gapVars, cmpVars, serVars, catVars, chkVars, dspVars, stnVars, renVars, edtVars, spaVars, fsVars, delVars, valVars, slVars, tcVars>>

notSpaVars == <<gapVars, cmpVars, serVars, catVars, chkVars, dspVars, stnVars, renVars, edtVars, sicVars, fsVars, delVars, valVars, slVars, tcVars>>

\* ------------------------------------------------------------------------
\* Helpers
\* ------------------------------------------------------------------------
Range(s) == {s[i] : i \in DOMAIN s}

Min(S) == CHOOSE x \in S : \A y \in S : x <= y

Max(S) == CHOOSE x \in S : \A y \in S : x >= y

\* day (pyDate.Date(year=ObservationYear, doy=ObservationDOY).mjd) of a timestamp
DayOf(t) == t \div TicksPerDay

\* ORDER BY "ObservationSTime": the rows of S as a sequence, ascending
RECURSIVE OrderBySTime(_)
OrderBySTime(S) ==
    IF S = {} THEN <<>>
    ELSE LET r == CHOOSE x \in S : \A y \in S : x.ObservationSTime <= y.ObservationSTime
         IN <<r>> \o OrderBySTime(S \ {r})

\* "ObservationSTime" BETWEEN start_date.yyyymmdd() AND end_date.yyyymmdd()
SelectBetween(tbl, start_date, end_date) ==
    OrderBySTime({r \in tbl : /\ start_date * TicksPerDay <= r.ObservationSTime
                              /\ r.ObservationSTime <= end_date * TicksPerDay})

\* ------------------------------------------------------------------------
\* Data gaps
\* ------------------------------------------------------------------------
\* rinex_proc holds one row per station-day
ProcRow(d, o) == [ObservationDOY |-> d, ObservationSTime |-> d * TicksPerDay + o]

ProcTables ==
    {T \in SUBSET {ProcRow(d, o) : d \in Days, o \in 0..(TicksPerDay - 1)} :
        \A r1, r2 \in T : r1.ObservationDOY = r2.ObservationDOY => r1 = r2}

\* GetGaps as if it kept the queried start_date/end_date as the limits
GetGapsQueriedLimits(tbl, start_date, end_date) ==
    LET rnxtbl == SelectBetween(tbl, start_date, end_date)
    IN IF Len(rnxtbl) > 0
       THEN LET possible == [i \in 1..(end_date - start_date + 1) |-> start_date + i - 1]
                actual   == {rnxtbl[i].ObservationDOY : i \in DOMAIN rnxtbl}
            IN [gaps |-> SelectSeq(possible, LAMBDA doy : doy \notin actual),
                possible_doys |-> possible]
       ELSE [gaps |-> <<>>, possible_doys |-> <<>>]

GetGaps(tbl, start_date, end_date) ==
    LET rnxtbl == SelectBetween(tbl, start_date, end_date)
    IN IF Len(rnxtbl) > 0
       THEN LET sd == rnxtbl[1].ObservationDOY
                ed == rnxtbl[Len(rnxtbl)].ObservationDOY
                possible == [i \in 1..(ed - sd + 1) |-> sd + i - 1]
                actual   == {rnxtbl[i].ObservationDOY : i \in DOMAIN rnxtbl}
            IN [gaps |-> SelectSeq(possible, LAMBDA doy : doy \notin actual),
                possible_doys |-> possible]
       ELSE [gaps |-> <<>>, possible_doys |-> <<>>]

\* one iteration (i > 0) of the loop of GetStnGaps; st = [gap_begin, gaps],
\* gap_begin is <<>> for None and <<d>> for the date d
StnGapsIter(st, d1, d2, ignore_val) ==
    LET gb1 == IF d1 # d2 + 1 /\ st.gap_begin = <<>> THEN <<d2 + 1>> ELSE st.gap_begin
    IN IF d1 = d2 + 1 /\ gb1 # <<>>
       THEN LET days == ((d2 - 1) - gb1[1]) + 1
            IN [gap_begin |-> <<>>,
                gaps |-> IF days > ignore_val
                         THEN Append(st.gaps, <<gb1[1], d2 - 1, days>>)
                         ELSE st.gaps]
       ELSE [gap_begin |-> gb1, gaps |-> st.gaps]

RECURSIVE StnGapsLoop(_, _, _, _)
StnGapsLoop(rnxtbl, i, st, ignore_val) ==
    IF i > Len(rnxtbl) THEN st
    ELSE StnGapsLoop(rnxtbl, i + 1,
                     IF i > 1
                     THEN StnGapsIter(st, rnxtbl[i].ObservationDOY,
                                      rnxtbl[i - 1].ObservationDOY, ignore_val)
                     ELSE st,
                     ignore_val)

GetStnGaps(tbl, ignore_val, start_date, end_date) ==
    StnGapsLoop(SelectBetween(tbl, start_date, end_date), 1,
                [gap_begin |-> <<>>, gaps |-> <<>>], ignore_val).gaps

GapsIdle ==
    /\ g_tbl = {}
    /\ g_args = [start_date |-> 1, end_date |-> 1, ignore_val |-> 0]
    /\ missing_doys = <<>>
    /\ possible_doys = <<>>
    /\ gaps = <<>>
    /\ g_done = {}

GapsStart ==
    /\ g_tbl \in ProcTables
    /\ g_args \in {a \in [start_date : Days, end_date : Days, ignore_val : 0..MaxIgnore] :
                      a.start_date <= a.end_date}
    /\ missing_doys = <<>>
    /\ possible_doys = <<>>
    /\ gaps = <<>>
    /\ g_done = {}

CallGetGaps ==
    /\ "GetGaps" \notin g_done
    /\ LET res == GetGaps(g_tbl, g_args.start_date, g_args.end_date)
       IN /\ missing_doys' = res.gaps
          /\ possible_doys' = res.possible_doys
    /\ g_done' = g_done \cup {"GetGaps"}
    /\ UNCHANGED <<g_tbl, g_args, gaps>>
    /\ UNCHANGED notGapVars

CallGetStnGaps ==
    /\ "GetStnGaps" \notin g_done
    /\ gaps' = GetStnGaps(g_tbl, g_args.ignore_val, g_args.start_date, g_args.end_date)
    /\ g_done' = g_done \cup {"GetStnGaps"}
    /\ UNCHANGED <<g_tbl, g_args, missing_doys, possible_doys>>
    /\ UNCHANGED notGapVars

\* ------------------------------------------------------------------------
\* Properties of the data gap search
\* ------------------------------------------------------------------------
\* the days of the rows the range query selects
SelectedDays == {r.ObservationDOY : r \in Range(SelectBetween(g_tbl, g_args.start_date, g_args.end_date))}

\* the days on which the station has an inventory row
InventoryDays == {r.ObservationDOY : r \in g_tbl}

\* C4 as stated: GetGaps returns exactly the days of the queried range
\* [start_date, end_date] that have no inventory row.
C4_GapsAreComplementOfQueriedRange ==
    "GetGaps" \in g_done =>
        Range(missing_doys) = {d \in g_args.start_date..g_args.end_date : d \notin InventoryDays}

\* C4 amended: GetGaps returns exactly the days between the first and the last
\* row selected by the range query that have no selected row, and nothing when
\* no row is selected.
C4_GapsAreComplementWithinData ==
    "GetGaps" \in g_done =>
        /\ SelectedDays = {} => missing_doys = <<>>
        /\ SelectedDays # {} =>
              Range(missing_doys) = {d \in Min(SelectedDays)..Max(SelectedDays) : d \notin SelectedDays}
        /\ \A i, j \in DOMAIN missing_doys : i < j => missing_doys[i] < missing_doys[j]

\* C4 witness: rows on days {1,2,5,6}, range [1,6], result {3,4}
C4_Witness ==
    /\ "GetGaps" \in g_done
    /\ InventoryDays = {1, 2, 5, 6}
    /\ g_args.start_date = 1 /\ g_args.end_date = 6
    /\ missing_doys = <<3, 4>>

\* the maximal runs <<first, last>> of consecutive days of a set of days
MaximalRuns(D) ==
    {<<a, b>> \in D \X D :
        /\ a <= b
        /\ \A d \in a..b : d \in D
        /\ (a - 1) \notin D
        /\ (b + 1) \notin D}

\* the missing days the gap search is about: what GetGaps returns
MissingDays == Range(GetGaps(g_tbl, g_args.start_date, g_args.end_date).gaps)

ReportedRuns == {<<gaps[i][1], gaps[i][2]>> : i \in DOMAIN gaps}

\* C9 as stated: a run of missing days is reported if and only if it is
\* longer than the ignore threshold.
C9_RunsLongerThanThresholdReported ==
    "GetStnGaps" \in g_done =>
        ReportedRuns = {r \in MaximalRuns(MissingDays) : r[2] - r[1] + 1 > g_args.ignore_val}

\* C28: the threshold is the smallest gap displayed: a run of missing days
\* is reported if and only if its length is at least the threshold
C28_ThresholdIsSmallestGapDisplayed ==
    "GetStnGaps" \in g_done =>
        \A r \in MaximalRuns(MissingDays) :
            r \in ReportedRuns <=> r[2] - r[1] + 1 >= g_args.ignore_val

\* C34: with threshold 0 the reported runs hold only missing days, and every
\* missing day of GetGaps lies in exactly one reported run
C34_RunsAreTheMissingDays ==
    "GetStnGaps" \in g_done /\ g_args.ignore_val = 0 =>
        /\ \A i \in DOMAIN gaps : \A d \in gaps[i][1]..gaps[i][2] : d \in MissingDays
        /\ \A d \in MissingDays :
              Cardinality({i \in DOMAIN gaps : d \in gaps[i][1]..gaps[i][2]}) = 1

\* ------------------------------------------------------------------------
\* Station information records and their lookup
\* ------------------------------------------------------------------------
\* a receiver serial is a string, here a sequence of characters
Serials == {<<"a", "1">>, <<"A", "1">>, <<"b", "1">>}

LowerChar(c) == CASE c = "A" -> "a" [] c = "B" -> "b" [] OTHER -> c

\* str.lower()
Lower(str) == [i \in DOMAIN str |-> LowerChar(str[i])]

\* the session boundaries a record can have: from the first day to the day
\* after the last one
SerialTicks == TicksPerDay..((MaxSerialDay + 1) * TicksPerDay)

SerialRecords ==
    {r \in [DateStart : SerialTicks, DateEnd : SerialTicks \cup {OpenDateEnd},
            ReceiverSerial : Serials] : r.DateStart < r.DateEnd}

\* the intervals [DateStart, DateEnd) of two records intersect
Intersects(r1, r2) ==
    (IF r1.DateEnd < r2.DateEnd THEN r1.DateEnd ELSE r2.DateEnd)
        > (IF r1.DateStart > r2.DateStart THEN r1.DateStart ELSE r2.DateStart)

\* record sets as the store keeps them: no two intervals intersect
Consistent(S) == \A r1, r2 \in S : r1 # r2 => ~Intersects(r1, r2)

RECURSIVE SetsUpTo(_, _)
SetsUpTo(U, n) ==
    IF n = 0 THEN {{}}
    ELSE LET smaller == SetsUpTo(U, n - 1)
         IN smaller \cup {S \cup {x} : S \in smaller, x \in U}

SerialStationInfos == {S \in SetsUpTo(SerialRecords, MaxRecords) : Consistent(S)}

\* the same with every session boundary at midnight
MidnightStationInfos ==
    {S \in SetsUpTo({r \in SerialRecords :
                        /\ r.DateStart % TicksPerDay = 0
                        /\ r.DateEnd # OpenDateEnd => r.DateEnd % TicksPerDay = 0},
                    MaxRecords) : Consistent(S)}

\* pyStationInfo.StationInfo(cnn, NetworkCode, StationCode, date):
\* <<>> when it raises pyStationInfoException (no record, or none applicable
\* at the date), <<currentrecord>> otherwise
StationInfoAt(records, date) ==
    LET applicable == {r \in records : r.DateStart <= date /\ date < r.DateEnd}
    IN IF applicable = {} THEN <<>>
       ELSE <<CHOOSE r \in applicable : \A q \in applicable : q.DateStart <= r.DateStart>>

\* ------------------------------------------------------------------------
\* Receiver serial check
\* ------------------------------------------------------------------------
\* compare_stninfo_rinex comparing the serials as they are written
CompareCaseSensitive(records, STime, ETime, rinex_serial, cnn_opens) ==
    IF ~cnn_opens
    THEN <<<<"open database">>, <<>>>>
    ELSE LET date    == STime + (ETime - STime) \div 2
             stninfo == StationInfoAt(records, date)
         IN IF stninfo = <<>>
            THEN <<<<"Station Information error">>, <<>>>>
            ELSE IF stninfo[1].ReceiverSerial # rinex_serial
                 THEN <<<<>>, <<date, rinex_serial, Lower(stninfo[1].ReceiverSerial)>>>>
                 ELSE <<<<>>, <<>>>>

\* compare_stninfo_rinex: the pair (error, difference), <<>> standing for None
compare_stninfo_rinex(records, STime, ETime, rinex_serial, cnn_opens) ==
    IF ~cnn_opens
    THEN <<<<"open database">>, <<>>>>
    ELSE LET date    == STime + (ETime - STime) \div 2
             stninfo == StationInfoAt(records, date)
         IN IF stninfo = <<>>
            THEN <<<<"Station Information error">>, <<>>>>
            ELSE IF Lower(stninfo[1].ReceiverSerial) # Lower(rinex_serial)
                 THEN <<<<>>, <<date, rinex_serial, Lower(stninfo[1].ReceiverSerial)>>>>
                 ELSE <<<<>>, <<>>>>

\* stnrnx_callback: job = [result, exception], result <<>> standing for None;
\* returns the new list of differences
stnrnx_callback(diffs, job) ==
    IF job.result # <<>> THEN Append(diffs, job.result[1]) ELSE diffs

\* dd.sort(key=get_key): ascending by date
RECURSIVE SortByDate(_)
SortByDate(S) ==
    IF S = {} THEN <<>>
    ELSE LET d == CHOOSE x \in S : \A y \in S : x[1] <= y[1]
         IN <<d>> \o SortByDate(S \ {d})

\* the differences that are not None in the order the callbacks appended them
get_differences_unsorted(diffs) ==
    LET dd == SelectSeq(diffs, LAMBDA d : d[2] # <<>>)
    IN [i \in DOMAIN dd |-> dd[i][2]]

\* get_differences: the differences that are not None, sorted by date
get_differences(diffs) ==
    SortByDate({diffs[i][2] : i \in {j \in DOMAIN diffs : diffs[j][2] # <<>>}})

\* the error messages get_differences writes
ErrorLines(diffs) ==
    SelectSeq([i \in DOMAIN diffs |-> IF diffs[i][1] # <<>> THEN <<"error", diffs[i][1][1]>> ELSE <<>>],
              LAMBDA l : l # <<>>)

\* the loop of StnInfoRinexIntegrity as if it opened a range on every line
RECURSIVE WarningLoopLinePerDay(_, _, _, _)
WarningLoopLinePerDay(diff_vect, i, print_head, out) ==
    IF i > Len(diff_vect) THEN out
    ELSE LET diff == diff_vect[i]
             prev == IF i = 1 THEN diff_vect[Len(diff_vect)] ELSE diff_vect[i - 1]
             out1 == Append(out, <<"from", DayOf(diff[1])>>)
         IN IF i # Len(diff_vect)
            THEN WarningLoopLinePerDay(diff_vect, i + 1, TRUE,
                                  Append(out1, <<"to", DayOf(diff[1]), prev[2], prev[3]>>))
            ELSE WarningLoopLinePerDay(diff_vect, i + 1, print_head, out1)

\* the loop of StnInfoRinexIntegrity over diff_vect; i counts from 1, and
\* diff_vect[i-1] of the first element is Python's diff_vect[-1], the last one
RECURSIVE WarningLoop(_, _, _, _)
WarningLoop(diff_vect, i, print_head, out) ==
    IF i > Len(diff_vect) THEN out
    ELSE LET diff == diff_vect[i]
             prev == IF i = 1 THEN diff_vect[Len(diff_vect)] ELSE diff_vect[i - 1]
             out1 == IF print_head THEN Append(out, <<"from", DayOf(diff[1])>>) ELSE out
         IN IF i # Len(diff_vect)
            THEN IF /\ DayOf(diff_vect[i + 1][1]) = DayOf(diff[1]) + 1
                    /\ diff_vect[i + 1][2] = diff[2]
                    /\ diff_vect[i + 1][3] = diff[3]
                 THEN WarningLoop(diff_vect, i + 1, FALSE, out1)
                 ELSE WarningLoop(diff_vect, i + 1, TRUE,
                                  Append(out1, <<"to", DayOf(diff[1]), prev[2], prev[3]>>))
            ELSE WarningLoop(diff_vect, i + 1, print_head, out1)

\* what StnInfoRinexIntegrity writes for one station once wait() returned
PrintWarnings(diffs) ==
    LET diff_vect == get_differences(diffs)
        body == WarningLoop(diff_vect, 1, TRUE, ErrorLines(diffs))
    IN IF diff_vect # <<>>
       THEN LET last == diff_vect[Len(diff_vect)]
            IN Append(body, <<"to", DayOf(last[1]), last[2], last[3]>>)
       ELSE Append(body, <<"No inconsistencies found">>)

\* ---- one job on its own ----
CompareJobs ==
    {j \in [STime : SerialTicks, ETime : SerialTicks, ReceiverSerial : Serials,
            cnn_opens : BOOLEAN] :
        /\ j.STime <= j.ETime
        /\ j.STime < (MaxSerialDay + 1) * TicksPerDay}

CompareIdle ==
    /\ c_stninfo = {}
    /\ c_job = [STime |-> TicksPerDay, ETime |-> TicksPerDay,
                ReceiverSerial |-> <<"a", "1">>, cnn_opens |-> TRUE]
    /\ c_result = <<>>

CompareStart ==
    /\ c_stninfo \in SerialStationInfos
    /\ c_job \in CompareJobs
    /\ c_result = <<>>

RunCompare ==
    /\ c_result = <<>>
    /\ c_result' = <<compare_stninfo_rinex(c_stninfo, c_job.STime, c_job.ETime,
                                           c_job.ReceiverSerial, c_job.cnn_opens)>>
    /\ UNCHANGED <<c_stninfo, c_job>>
    /\ UNCHANGED notCmpVars

\* ---- the check of one station ----
\* rinex_proc: one row per station-day, the session inside its day
SerialRows ==
    {r \in [ObservationSTime : SerialTicks, ObservationETime : SerialTicks,
            ReceiverSerial : Serials] :
        /\ r.ObservationSTime % TicksPerDay = 0
        /\ r.ObservationETime = r.ObservationSTime + TicksPerDay
        /\ DayOf(r.ObservationSTime) <= MaxSerialDay}

SerialTables ==
    {T \in SUBSET SerialRows :
        \A r1, r2 \in T : DayOf(r1.ObservationSTime) = DayOf(r2.ObservationSTime) => r1 = r2}

SerialIdle ==
    /\ s_stninfo = {}
    /\ s_rnxtbl = {}
    /\ s_pending = {}
    /\ differences = <<>>
    /\ s_pc = "idle"
    /\ s_out = <<>>

SerialStart ==
    /\ s_stninfo \in MidnightStationInfos
    /\ s_rnxtbl \in SerialTables
    /\ s_pending = {}
    /\ differences = <<>>
    /\ s_pc = "submit"
    /\ s_out = <<>>

\* lines 202-207: differences = [] and one job per row of rnxtbl
SubmitJobs ==
    /\ s_pc = "submit"
    /\ differences' = <<>>
    /\ s_pending' = s_rnxtbl
    /\ s_pc' = "wait"
    /\ UNCHANGED <<s_stninfo, s_rnxtbl, s_out>>
    /\ UNCHANGED notSerVars

\* a job completes on some node and the dispatcher calls the callback
JobCompletes ==
    /\ s_pc = "wait"
    /\ \E rnx \in s_pending :
          LET res == compare_stninfo_rinex(s_stninfo, rnx.ObservationSTime, rnx.ObservationETime,
                                           Lower(rnx.ReceiverSerial), TRUE)
          IN /\ differences' = stnrnx_callback(differences, [result |-> <<res>>, exception |-> <<>>])
             /\ s_pending' = s_pending \ {rnx}
    /\ UNCHANGED <<s_stninfo, s_rnxtbl, s_pc, s_out>>
    /\ UNCHANGED notSerVars

\* lines 209-241: wait() returned; sort and print
ReportDifferences ==
    /\ s_pc = "wait"
    /\ s_pending = {}
    /\ s_out' = PrintWarnings(differences)
    /\ s_pc' = "done"
    /\ UNCHANGED <<s_stninfo, s_rnxtbl, s_pending, differences>>
    /\ UNCHANGED notSerVars

\* ---- the check of a list of stations ----
\* line 183: the stations of stnlist
SerialListStations ==
    <<[NetworkCode |-> <<"n", "a">>, StationCode |-> <<"s", "a">>],
      [NetworkCode |-> <<"n", "a">>, StationCode |-> <<"s", "b">>]>>

\* the records of a station of the list: one open record, or a receiver
\* change at the start of day 2
SerialListInfos ==
    {{[DateStart |-> TicksPerDay, DateEnd |-> OpenDateEnd, ReceiverSerial |-> <<"a", "1">>]},
     {[DateStart |-> TicksPerDay, DateEnd |-> 2 * TicksPerDay, ReceiverSerial |-> <<"a", "1">>],
      [DateStart |-> 2 * TicksPerDay, DateEnd |-> OpenDateEnd, ReceiverSerial |-> <<"b", "1">>]}}

SerialListIdle ==
    /\ sl_stninfo = <<>>
    /\ sl_rnxtbl = <<>>
    /\ sl_i = 1
    /\ sl_pending = {}
    /\ sl_pc = "idle"
    /\ sl_out = <<>>

\* the first station has at most one row in the range, the second any rows
SerialListStart ==
    /\ sl_stninfo \in {<<S1, S2>> : S1 \in SerialListInfos, S2 \in SerialListInfos}
    /\ sl_rnxtbl \in {<<T1, T2>> : T1 \in {T \in SerialTables : Cardinality(T) <= 1}, T2 \in SerialTables}
    /\ sl_i = 1
    /\ sl_pending = {}
    /\ sl_pc = "submit"
    /\ sl_out = <<>>

\* lines 202-207 for the station at sl_i: differences = [] and one job per
\* row, submitted with the codes of the station
ListSubmitJobs ==
    /\ sl_pc = "submit"
    /\ differences' = <<>>
    /\ sl_pending' = {[stn |-> sl_i, rnx |-> r] : r \in sl_rnxtbl[sl_i]}
    /\ sl_pc' = "wait"
    /\ UNCHANGED <<sl_stninfo, sl_rnxtbl, sl_i, sl_out>>
    /\ UNCHANGED <<s_stninfo, s_rnxtbl, s_pending, s_pc, s_out>>
    /\ UNCHANGED <<gapVars, cmpVars, catVars, chkVars, dspVars, stnVars, renVars, edtVars, spaVars,
                   sicVars, fsVars, delVars, valVars, tcVars>>

\* a job completes on some node and the dispatcher calls stnrnx_callback
ListJobCompletes ==
    /\ sl_pc = "wait"
    /\ \E job \in sl_pending :
          LET res == compare_stninfo_rinex(sl_stninfo[job.stn], job.rnx.ObservationSTime,
                                           job.rnx.ObservationETime, Lower(job.rnx.ReceiverSerial), TRUE)
          IN /\ differences' = stnrnx_callback(differences, [result |-> <<res>>, exception |-> <<>>])
             /\ sl_pending' = sl_pending \ {job}
    /\ UNCHANGED <<sl_stninfo, sl_rnxtbl, sl_i, sl_pc, sl_out>>
    /\ UNCHANGED <<s_stninfo, s_rnxtbl, s_pending, s_pc, s_out>>
    /\ UNCHANGED <<gapVars, cmpVars, catVars, chkVars, dspVars, stnVars, renVars, edtVars, spaVars,
                   sicVars, fsVars, delVars, valVars, tcVars>>

\* lines 209-241: wait() returned; the warnings of the station are written
\* and the loop of line 183 goes to the next station
ListReportDifferences ==
    /\ sl_pc = "wait"
    /\ sl_pending = {}
    /\ sl_out' = Append(sl_out, PrintWarnings(differences))
    /\ sl_i' = sl_i + 1
    /\ sl_pc' = IF sl_i = Len(SerialListStations) THEN "done" ELSE "submit"
    /\ UNCHANGED <<sl_stninfo, sl_rnxtbl, sl_pending>>
    /\ UNCHANGED notSlVars

\* ------------------------------------------------------------------------
\* Properties of the receiver serial check
\* ------------------------------------------------------------------------
\* the midpoint of the session of the job
Midpoint == c_job.STime + (c_job.ETime - c_job.STime) \div 2

\* the records whose [DateStart, DateEnd) holds the midpoint
ActiveAtMidpoint == {r \in c_stninfo : r.DateStart <= Midpoint /\ (r.DateEnd = OpenDateEnd \/ Midpoint < r.DateEnd)}

\* C7: a job reports a mismatch if and only if the row's serial differs,
\* ignoring case, from the serial of the record active at the session
\* midpoint; without an applicable record the job returns an error entry and
\* no mismatch.
C7_MismatchIffSerialsDifferIgnoringCase ==
    c_result # <<>> /\ c_job.cnn_opens =>
        LET err  == c_result[1][1]
            diff == c_result[1][2]
        IN /\ diff # <<>> <=>
                \E r \in ActiveAtMidpoint : Lower(r.ReceiverSerial) # Lower(c_job.ReceiverSerial)
           /\ ActiveAtMidpoint = {} => err # <<>> /\ diff = <<>>
           /\ ActiveAtMidpoint # {} => err = <<>>
           /\ diff # <<>> => diff[1] = Midpoint /\ diff[2] = c_job.ReceiverSerial

\* C7 witness: the serials differ only in case, the midpoint differs from the
\* session start, and the job found nothing to report
C7_Witness ==
    /\ c_result = <<<<<<>>, <<>>>>>>
    /\ c_job.cnn_opens
    /\ Midpoint # c_job.STime
    /\ \E r \in ActiveAtMidpoint :
          /\ r.ReceiverSerial # c_job.ReceiverSerial
          /\ r.DateStart > c_job.STime

\* the mismatches of the station: <<day, observed, declared>>
Mismatches ==
    {<<DayOf(differences[i][2][1]), differences[i][2][2], differences[i][2][3]>> :
        i \in {j \in DOMAIN differences : differences[j][2] # <<>>}}

\* the maximal runs <<first day, last day>> of consecutive days with the
\* identical (observed, declared) pair
MismatchRuns ==
    {<<m1[1], m2[1]>> : <<m1, m2>> \in
        {p \in Mismatches \X Mismatches :
            /\ p[1][1] <= p[2][1]
            /\ p[1][2] = p[2][2] /\ p[1][3] = p[2][3]
            /\ \A d \in p[1][1]..p[2][1] : <<d, p[1][2], p[1][3]>> \in Mismatches
            /\ <<p[1][1] - 1, p[1][2], p[1][3]>> \notin Mismatches
            /\ <<p[2][1] + 1, p[1][2], p[1][3]>> \notin Mismatches}}

\* the warning lines: what is written after the error messages
WarningTokens == SelectSeq(s_out, LAMBDA l : l[1] \in {"from", "to"})

\* C8: one warning range per maximal run of consecutive days with the
\* identical (observed, declared) pair, from the first to the last day of
\* the run, in date order.
C8_OneRangePerRun ==
    s_pc = "done" =>
        /\ Len(WarningTokens) = 2 * Cardinality(MismatchRuns)
        /\ \A k \in 1..Cardinality(MismatchRuns) :
              /\ WarningTokens[2 * k - 1][1] = "from"
              /\ WarningTokens[2 * k][1] = "to"
              /\ <<WarningTokens[2 * k - 1][2], WarningTokens[2 * k][2]>> \in MismatchRuns
              /\ k > 1 => WarningTokens[2 * k - 2][2] < WarningTokens[2 * k - 1][2]

\* C8 witness: three consecutive days with the same pair gave one range
C8_Witness ==
    /\ s_pc = "done"
    /\ Cardinality(Mismatches) = 3
    /\ MismatchRuns = {<<1, 3>>}
    /\ Len(WarningTokens) = 2

\* C33: every warning range shows the observed and the declared serial of
\* the mismatches that lie inside it, whatever its length and its place in
\* the list
C33_RangeShowsItsOwnSerials ==
    s_pc = "done" =>
        \A k \in 1..(Len(WarningTokens) \div 2) :
            \A m \in Mismatches :
                m[1] \in WarningTokens[2 * k - 1][2]..WarningTokens[2 * k][2] =>
                    /\ WarningTokens[2 * k][3] = m[2]
                    /\ WarningTokens[2 * k][4] = m[3]

\* the warning lines among the lines written for a station
WarningsOf(out) == SelectSeq(out, LAMBDA l : l[1] \in {"from", "to"})

\* what the jobs of the station at index i return, in the order of the rows
ResultsInRowOrder(i) ==
    LET rows == OrderBySTime(sl_rnxtbl[i])
    IN [k \in DOMAIN rows |->
           compare_stninfo_rinex(sl_stninfo[i], rows[k].ObservationSTime, rows[k].ObservationETime,
                                 Lower(rows[k].ReceiverSerial), TRUE)]

\* C38: whatever the order in which the jobs completed, the warning ranges
\* written for a station are those of its own rows taken in date order: the
\* order of the callbacks does not show, and no result of another station
\* is among them
C38_WarningsIndependentOfCompletionOrder ==
    \A i \in DOMAIN sl_out :
        WarningsOf(sl_out[i]) = WarningsOf(PrintWarnings(ResultsInRowOrder(i)))

\* both stations had mismatches, and the callbacks of the second station
\* did not come in date order
C38_Witness ==
    /\ sl_pc = "done"
    /\ WarningsOf(sl_out[1]) # <<>>
    /\ Len(WarningsOf(sl_out[2])) >= 4
    /\ \E j, k \in DOMAIN differences :
          /\ j < k
          /\ differences[j][2] # <<>> /\ differences[k][2] # <<>>
          /\ differences[j][2][1] > differences[k][2][1]

\* ------------------------------------------------------------------------
\* RINEX integrity check: check_rinex_stn
\* ------------------------------------------------------------------------
\* network and station codes, file names and directories are strings, here
\* sequences of characters
NetworkCodes == << <<"n", "a">>, <<"n", "b">> >>

StationCodes == << <<"s", "a">>, <<"s", "b">>, <<"s", "c">>, <<"s", "d">>, <<"x", "n", "a">> >>

Digits == <<"1", "2", "3", "4", "5", "6", "7", "8", "9">>

StationOf(net, stn) == [NetworkCode |-> net, StationCode |-> stn]

Station(n) == StationOf(NetworkCodes[1], StationCodes[n])

StationA == Station(1)

StationB == Station(2)

\* the Filename of the rinex row of a station and day: ssssddd0.yyo
FilenameOf(StationCode, d) == StationCode \o <<Digits[d], "0.80", "o">>

\* a row of the rinex table of station stn whose session starts o ticks into day d
RinexRow(stn, d, o) ==
    [NetworkCode |-> stn.NetworkCode, StationCode |-> stn.StationCode,
     ObservationYear |-> BaseYear, ObservationDOY |-> d,
     ObservationSTime |-> d * TicksPerDay + o,
     Filename |-> FilenameOf(stn.StationCode, d)]

\* Archive.build_rinex_path: the directory network/station under year and
\* day of year, and the compressed file name
build_rinex_path(NetworkCode, StationCode, ObservationYear, ObservationDOY, filename) ==
    [dir  |-> <<"/">> \o NetworkCode \o <<"/">> \o StationCode,
     year |-> ObservationYear,
     doy  |-> ObservationDOY,
     file |-> SubSeq(filename, 1, Len(filename) - 1) \o <<"d.Z">>]

PathOf(rnx) ==
    build_rinex_path(rnx.NetworkCode, rnx.StationCode, rnx.ObservationYear,
                     rnx.ObservationDOY, rnx.Filename)

\* the query as if it had no date filter
SelectStationAnyDate(tbl, NetworkCode, StationCode, start_date, end_date) ==
    OrderBySTime({r \in tbl : r.NetworkCode = NetworkCode /\ r.StationCode = StationCode})

\* the rows of a station with "ObservationSTime" BETWEEN the two dates
SelectStationBetween(tbl, NetworkCode, StationCode, start_date, end_date) ==
    SelectBetween({r \in tbl : r.NetworkCode = NetworkCode /\ r.StationCode = StationCode},
                  start_date, end_date)

\* pyEvents.Event(**kwargs): <<>> when a key is not a valid field, else <<event>>
EventDefaults ==
    [EventType |-> "info", NetworkCode |-> <<>>, StationCode |-> <<>>, Year |-> <<>>,
     DOY |-> <<>>, Description |-> <<>>, stack |-> <<>>]

Event(kwargs) ==
    IF \E key \in DOMAIN kwargs : key \notin DOMAIN EventDefaults
    THEN <<>>
    ELSE LET ev == [key \in DOMAIN EventDefaults |->
                       IF key \in DOMAIN kwargs THEN kwargs[key] ELSE EventDefaults[key]]
         IN <<[ev EXCEPT !.stack = <<>>]>>

\* one pass of the loop of check_rinex_stn over rnxtbl; st = [rinex, events,
\* missing_files]; fails = <<i, step>> makes the named step of iteration i
\* raise.  Returns st with raised set when the pass ended in the except clause.
RECURSIVE CheckLoop(_, _, _, _, _)
CheckLoop(rnxtbl, i, st, exists, fails) ==
    IF i > Len(rnxtbl) THEN [st EXCEPT !.raised = FALSE]
    ELSE LET rnx         == rnxtbl[i]
             crinex_path == PathOf(rnx)
         IN IF fails = <<i, "exists">> THEN [st EXCEPT !.raised = TRUE]
            ELSE IF crinex_path \in exists THEN CheckLoop(rnxtbl, i + 1, st, exists, fails)
            ELSE IF fails = <<i, "remove_rinex">> THEN [st EXCEPT !.raised = TRUE]
            ELSE LET removed == [st EXCEPT !.rinex = st.rinex \ {rnx}]
                     event   == Event([Description |-> crinex_path,
                                       NetworkCode |-> rnx.NetworkCode,
                                       StationCode |-> rnx.StationCode,
                                       Year |-> rnx.ObservationYear,
                                       DOY |-> rnx.ObservationDOY])
                 IN IF fails = <<i, "insert_event">> \/ event = <<>>
                    THEN [removed EXCEPT !.raised = TRUE]
                    ELSE CheckLoop(rnxtbl, i + 1,
                                   [removed EXCEPT !.events = Append(st.events, event[1]),
                                                   !.missing_files = Append(st.missing_files, crinex_path)],
                                   exists, fails)

\* check_rinex_stn with an except clause that returns the paths collected so
\* far next to the error text
check_rinex_stn_partial(tbl, exists, evts, NetworkCode, StationCode, start_date, end_date, fails) ==
    IF fails = <<0, "cnn">>
    THEN [result |-> <<<<"traceback">>, <<>>>>, rinex |-> tbl, events |-> evts]
    ELSE LET rnxtbl == SelectStationBetween(tbl, NetworkCode, StationCode, start_date, end_date)
             st == CheckLoop(rnxtbl, 1,
                             [rinex |-> tbl, events |-> evts, missing_files |-> <<>>, raised |-> FALSE],
                             exists, fails)
         IN IF st.raised
            THEN [result |-> <<<<"traceback">>, <<st.missing_files>>>>, rinex |-> st.rinex, events |-> st.events]
            ELSE [result |-> <<<<>>, <<st.missing_files>>>>, rinex |-> st.rinex, events |-> st.events]

\* check_rinex_stn: [result |-> <<error, missing_files>> with <<>> for None,
\* rinex and events |-> the tables after the call]
check_rinex_stn(tbl, exists, evts, NetworkCode, StationCode, start_date, end_date, fails) ==
    IF fails = <<0, "cnn">>
    THEN [result |-> <<<<"traceback">>, <<>>>>, rinex |-> tbl, events |-> evts]
    ELSE LET rnxtbl == SelectStationBetween(tbl, NetworkCode, StationCode, start_date, end_date)
             st == CheckLoop(rnxtbl, 1,
                             [rinex |-> tbl, events |-> evts, missing_files |-> <<>>, raised |-> FALSE],
                             exists, fails)
         IN IF st.raised
            THEN [result |-> <<<<"traceback">>, <<>>>>, rinex |-> st.rinex, events |-> st.events]
            ELSE [result |-> <<<<>>, <<st.missing_files>>>>, rinex |-> st.rinex, events |-> st.events]

\* what can fail during a call that finds n rows
Failures(n) == {<<0, "none">>, <<0, "cnn">>} \cup ((1..n) \X {"exists", "remove_rinex", "insert_event"})

\* the rinex tables: at most one row per station and day
RinexTables(stns, lastDay) ==
    {T \in SUBSET {RinexRow(stn, d, o) : stn \in stns, d \in 1..lastDay, o \in 0..(TicksPerDay - 1)} :
        \A r1, r2 \in T : PathOf(r1) = PathOf(r2) => r1 = r2}

CatalogIdle ==
    /\ rinex = {}
    /\ rinex0 = {}
    /\ archive = {}
    /\ archive0 = {}
    /\ events = <<>>

CheckIdle ==
    /\ k_args = [stn |-> StationA, start_date |-> 1, end_date |-> 1, fails |-> <<0, "none">>]
    /\ k_result = <<>>

CheckStart ==
    /\ rinex \in {T \in RinexTables({StationA, StationB}, MaxRinexDay) :
                    Cardinality({r \in T : r.StationCode = StationB.StationCode}) <= 1}
    /\ rinex0 = rinex
    /\ archive \in SUBSET {PathOf(r) : r \in rinex}
    /\ archive0 = archive
    /\ events = <<>>
    /\ k_args \in {a \in [stn : {StationA}, start_date : 1..MaxRinexDay, end_date : 1..MaxRinexDay,
                          fails : Failures(MaxRinexDay)] : a.start_date <= a.end_date}
    /\ k_args.fails[1] <= Len(SelectStationBetween(rinex, k_args.stn.NetworkCode,
                                  k_args.stn.StationCode, k_args.start_date, k_args.end_date))
    /\ k_result = <<>>

RunCheckRinexStn ==
    /\ k_result = <<>>
    /\ LET out == check_rinex_stn(rinex, archive, events, k_args.stn.NetworkCode,
                                  k_args.stn.StationCode, k_args.start_date, k_args.end_date,
                                  k_args.fails)
       IN /\ k_result' = <<out.result>>
          /\ rinex' = out.rinex
          /\ events' = out.events
    /\ UNCHANGED <<rinex0, archive, archive0, k_args>>
    /\ UNCHANGED notChkVars

\* ------------------------------------------------------------------------
\* Properties of check_rinex_stn
\* ------------------------------------------------------------------------
\* the rows of the checked station that the range query selects
RowsInRange ==
    {r \in rinex0 : /\ r.NetworkCode = k_args.stn.NetworkCode
                    /\ r.StationCode = k_args.stn.StationCode
                    /\ k_args.start_date * TicksPerDay <= r.ObservationSTime
                    /\ r.ObservationSTime <= k_args.end_date * TicksPerDay}

CheckSucceeded == k_result # <<>> /\ k_result[1][1] = <<>>

C6_OneEventPerRemoval ==
    k_result # <<>> =>
        /\ Len(events) = Cardinality(rinex0 \ rinex)
        /\ \A r \in rinex0 \ rinex :
              Cardinality({i \in DOMAIN events :
                              /\ events[i].NetworkCode = r.NetworkCode
                              /\ events[i].StationCode = r.StationCode
                              /\ events[i].Year = r.ObservationYear
                              /\ events[i].DOY = r.ObservationDOY}) = 1

\* ------------------------------------------------------------------------
\* RINEX integrity check: CheckRinexIntegrity over a station list
\* ------------------------------------------------------------------------
BatchStations == {Station(n) : n \in 1..MaxStations}

\* the number of jobs the pool is running
Running == Cardinality({stn \in d_stnlist : d_jobs[stn].state = "running"})

\* lines 167-172: the lines printed from rinex_css
RECURSIVE SummaryLines(_, _)
SummaryLines(css, i) ==
    IF i > Len(css) THEN <<>>
    ELSE (IF css[i][2] # <<>> /\ css[i][2][1] # <<>>
          THEN [n \in DOMAIN css[i][2][1] |-> <<"File not found in the archive", css[i][2][1][n]>>]
          ELSE IF css[i][1] # <<>>
               THEN <<<<"Error encountered", css[i][1][1]>>>>
               ELSE <<>>)
         \o SummaryLines(css, i + 1)

DispatchStart ==
    /\ d_stnlist = BatchStations
    /\ d_jobs = [stn \in BatchStations |-> [state |-> "new", result |-> <<>>, exception |-> <<>>]]
    /\ rinex_css = <<>>
    /\ d_pc = "submit"
    /\ d_out = <<>>
    /\ rinex \in RinexTables(BatchStations, 1)
    /\ rinex0 = rinex
    /\ archive \in SUBSET {PathOf(r) : r \in rinex}
    /\ archive0 = archive
    /\ events = <<>>
    /\ differences = <<>>

\* lines 152-161: rinex_css = [], create_cluster, one submit per station
SubmitStations ==
    /\ d_pc = "submit"
    /\ rinex_css' = <<>>
    /\ d_jobs' = [stn \in d_stnlist |-> [d_jobs[stn] EXCEPT !.state = "submitted"]]
    /\ d_pc' = "wait"
    /\ UNCHANGED <<d_stnlist, d_out, differences>>
    /\ UNCHANGED catVars
    /\ UNCHANGED notDspVars

\* the pool takes a submitted job when a worker is free
JobStarts ==
    /\ d_pc = "wait"
    /\ Running < PoolSize
    /\ \E stn \in d_stnlist :
          /\ d_jobs[stn].state = "submitted"
          /\ d_jobs' = [d_jobs EXCEPT ![stn].state = "running"]
    /\ UNCHANGED <<d_stnlist, rinex_css, d_pc, d_out, differences>>
    /\ UNCHANGED catVars
    /\ UNCHANGED notDspVars

\* check_rinex_stn runs to its return on the worker
JobReturns ==
    /\ d_pc = "wait"
    /\ \E stn \in d_stnlist :
          /\ d_jobs[stn].state = "running"
          /\ \E fails \in Failures(1) :
                LET out == check_rinex_stn(rinex, archive, events, stn.NetworkCode, stn.StationCode,
                                           1, 1, fails)
                IN /\ d_jobs' = [d_jobs EXCEPT ![stn].state = "finished",
                                               ![stn].result = <<out.result>>]
                   /\ rinex' = out.rinex
                   /\ events' = out.events
    /\ UNCHANGED <<d_stnlist, rinex_css, d_pc, d_out, differences, rinex0, archive, archive0>>
    /\ UNCHANGED notDspVars

\* the task raises: the dispatcher keeps the exception, the job has no result
JobRaises ==
    /\ d_pc = "wait"
    /\ \E stn \in d_stnlist :
          /\ d_jobs[stn].state = "running"
          /\ d_jobs' = [d_jobs EXCEPT ![stn].state = "finished",
                                      ![stn].exception = <<"traceback">>]
    /\ UNCHANGED <<d_stnlist, rinex_css, d_pc, d_out, differences>>
    /\ UNCHANGED catVars
    /\ UNCHANGED notDspVars

\* the dispatcher calls stnrnx_callback for a finished job
JobCallback ==
    /\ d_pc = "wait"
    /\ \E stn \in d_stnlist :
          /\ d_jobs[stn].state = "finished"
          /\ differences' = stnrnx_callback(differences, d_jobs[stn])
          /\ d_out' = IF d_jobs[stn].result = <<>>
                      THEN Append(d_out, <<"exception", d_jobs[stn].exception[1]>>)
                      ELSE d_out
          /\ d_jobs' = [d_jobs EXCEPT ![stn].state = "done"]
    /\ UNCHANGED <<d_stnlist, rinex_css, d_pc>>
    /\ UNCHANGED catVars
    /\ UNCHANGED notDspVars

\* lines 163-172: wait() returns once every job is done; the summary follows
WaitReturns ==
    /\ d_pc = "wait"
    /\ \A stn \in d_stnlist : d_jobs[stn].state = "done"
    /\ d_out' = d_out \o SummaryLines(rinex_css, 1)
    /\ d_pc' = "done"
    /\ UNCHANGED <<d_stnlist, d_jobs, rinex_css, differences>>
    /\ UNCHANGED catVars
    /\ UNCHANGED notDspVars

\* ------------------------------------------------------------------------
\* Properties of the dispatch
\* ------------------------------------------------------------------------
RaisedJobs == {stn \in d_stnlist : d_jobs[stn].exception # <<>>}

ErrorEntries == {i \in DOMAIN differences : differences[i][1] # <<>>}

SuccessEntries == {i \in DOMAIN differences : differences[i][1] = <<>>}

\* C3 as stated: when one of the N tasks raises and the others succeed, then
\* after wait() returned the collection the callback fills holds N entries,
\* one error entry and N-1 success entries.
C3_OneEntryPerTask ==
    (/\ d_pc = "done"
     /\ Cardinality(RaisedJobs) = 1
     /\ \A stn \in d_stnlist \ RaisedJobs : d_jobs[stn].result[1][1] = <<>>) =>
        /\ Len(differences) = Cardinality(d_stnlist)
        /\ Cardinality(ErrorEntries) = 1
        /\ Cardinality(SuccessEntries) = Cardinality(d_stnlist) - 1

\* the jobs whose call of check_rinex_stn returned
ReturnedJobs == {stn \in d_stnlist : d_jobs[stn].result # <<>>}

\* C22: what check_rinex_stn returns has exactly one component that is not
\* None, the error text or the list of paths, and when wait() has returned
\* the task of every station was run to its end, whatever the others returned
C22_ErrorsReturnedNotRaised ==
    /\ \A stn \in ReturnedJobs :
          (d_jobs[stn].result[1][1] = <<>>) # (d_jobs[stn].result[1][2] = <<>>)
    /\ d_pc = "done" =>
          \A stn \in d_stnlist :
              d_jobs[stn].state = "done" /\ (stn \in ReturnedJobs \/ stn \in RaisedJobs)

\* the check of one station returned an error and the check of another one
\* returned the path of a missing file
C22_Witness ==
    /\ d_pc = "done"
    /\ \E s1, s2 \in ReturnedJobs :
          /\ s1 # s2
          /\ d_jobs[s1].result[1][1] # <<>> /\ d_jobs[s1].result[1][2] = <<>>
          /\ d_jobs[s2].result[1][1] = <<>> /\ Len(d_jobs[s2].result[1][2][1]) = 1

\* the number of lines of d_out equal to line
LinesEqual(line) == Cardinality({i \in DOMAIN d_out : d_out[i] = line})

\* C23: after wait() returned, the summary holds one not-found line per
\* path a check removed and one error line per check that returned an error
C23_SummaryAfterWait ==
    d_pc = "done" =>
        /\ \A stn \in ReturnedJobs :
              d_jobs[stn].result[1][2] # <<>> =>
                  \A n \in DOMAIN d_jobs[stn].result[1][2][1] :
                      LinesEqual(<<"File not found in the archive", d_jobs[stn].result[1][2][1][n]>>) = 1
        /\ LinesEqual(<<"Error encountered", <<"traceback">>>>)
              = Cardinality({stn \in ReturnedJobs : d_jobs[stn].result[1][1] # <<>>})

DispatchIdle ==
    /\ d_stnlist = {}
    /\ d_jobs = <<>>
    /\ rinex_css = <<>>
    /\ d_pc = "idle"
    /\ d_out = <<>>

\* ------------------------------------------------------------------------
\* Station information store
\* ------------------------------------------------------------------------
\* a station information record of a station
InfoRecord(stn, DateStart, DateEnd) ==
    [NetworkCode |-> stn.NetworkCode, StationCode |-> stn.StationCode,
     DateStart |-> DateStart, DateEnd |-> DateEnd, ReceiverSerial |-> <<"a", "1">>]

\* the dates a record can start or end at: midnight of a day
InfoTicks == {d * TicksPerDay : d \in 1..MaxInfoDay}

InfoRecords(stn) ==
    {r \in {InfoRecord(stn, ds, de) : ds \in InfoTicks, de \in InfoTicks \cup {OpenDateEnd}} :
        r.DateStart < r.DateEnd}

StnIdle ==
    /\ stations = {}
    /\ stationinfo = {}

\* the records of a station in the stationinfo table
StationRecords(tbl, NetworkCode, StationCode) ==
    {r \in tbl : r.NetworkCode = NetworkCode /\ r.StationCode = StationCode}

\* StationInfo.overlaps(record): the loaded records whose interval intersects
overlaps(records, record) == {r \in records : Intersects(r, record)}

\* StationInfo.InsertStationInfo(record) on the store that loaded records:
\* <<>> when it raises pyStationInfoException, <<table>> after the insert.
\* The row goes into the table with the codes the record carries.
InsertStationInfo(tbl, records, record) ==
    IF overlaps(records, record) # {} THEN <<>> ELSE <<tbl \cup {record}>>

\* StationInfo.UpdateStationInfo(record, new_record)
UpdateStationInfo(tbl, records, record, new_record) ==
    IF overlaps(records \ {record}, new_record) # {} THEN <<>>
    ELSE <<(tbl \ {record}) \cup {new_record}>>

\* StationInfo.DeleteStationInfo(record)
DeleteStationInfo(tbl, record) == tbl \ {record}

\* ------------------------------------------------------------------------
\* RenameStation
\* ------------------------------------------------------------------------
\* str.replace(old, new)
RECURSIVE StrReplace(_, _, _)
StrReplace(str, old, new) ==
    IF Len(str) < Len(old) THEN str
    ELSE IF SubSeq(str, 1, Len(old)) = old
         THEN new \o StrReplace(SubSeq(str, Len(old) + 1, Len(str)), old, new)
         ELSE <<Head(str)>> \o StrReplace(Tail(str), old, new)

\* lines 585-591 and 606: where the file of src_rinex is and where it goes
SrcPath(a, src_rinex) ==
    build_rinex_path(a.NetworkCode, a.StationCode, src_rinex.ObservationYear,
                     src_rinex.ObservationDOY, src_rinex.Filename)

DestPath(a, src_rinex) ==
    LET src == SrcPath(a, src_rinex)
    IN [src EXCEPT !.dir  = StrReplace(StrReplace(src.dir, a.StationCode, a.DestStationCode),
                                       a.NetworkCode, a.DestNetworkCode),
                   !.file = StrReplace(src.file, a.StationCode, a.DestStationCode)]

\* lines 596-601: the row the UPDATE turns src_rinex into
DestRow(a, src_rinex) ==
    [src_rinex EXCEPT !.NetworkCode = a.DestNetworkCode,
                      !.StationCode = a.DestStationCode,
                      !.Filename = StrReplace(DestPath(a, src_rinex).file, <<"d.Z">>, <<"o">>)]

\* the key of a row of the rinex table
RinexKey(r) == <<r.NetworkCode, r.StationCode, r.ObservationYear, r.ObservationDOY, r.Filename>>

\* lines 617-638: the station information transfer for the date of one file.
\* [stationinfo |-> the table afterwards, raised |-> an exception other than
\* pyStationInfoException left the block]
StationInfoTransfer(tbl, a, date, insert_fails) ==
    LET dest == StationRecords(tbl, a.DestNetworkCode, a.DestStationCode)
        src  == StationRecords(tbl, a.NetworkCode, a.StationCode)
    IN IF StationInfoAt(dest, date) # <<>>
       THEN [stationinfo |-> tbl, raised |-> FALSE]
       ELSE IF dest = {} \/ StationInfoAt(src, date) = <<>>
            THEN [stationinfo |-> tbl, raised |-> FALSE]
            ELSE LET record == [StationInfoAt(src, date)[1] EXCEPT !.StationCode = a.DestStationCode]
                     res    == InsertStationInfo(tbl, dest, record)
                 IN IF res = <<>> THEN [stationinfo |-> tbl, raised |-> FALSE]
                    ELSE IF insert_fails THEN [stationinfo |-> tbl, raised |-> TRUE]
                    ELSE [stationinfo |-> res[1], raised |-> FALSE]

\* the orders in which the query without ORDER BY can return the rows of S
Orderings(S) ==
    {q \in [1..Cardinality(S) -> S] : \A i, j \in 1..Cardinality(S) : i # j => q[i] # q[j]}

\* the except clause of line 640: rollback_transac, then the exception leaves
\* RenameStation
RollbackAndRaise(step) ==
    /\ rinex' = IF r_tx > 0 THEN r_snapshot ELSE rinex
    /\ r_tx' = 0
    /\ r_log' = Append(r_log, "rollback")
    /\ r_failed' = <<r_i, step>>
    /\ r_pc' = "raised"

\* a selection that does not look for the destination in the stations table
RenameSelectUnchecked ==
    /\ r_pc = "start"
    /\ \/ /\ RollbackAndRaise("query")
          /\ UNCHANGED <<original_rs, r_i>>
       \/ /\ original_rs' \in Orderings(Range(SelectStationBetween(rinex, r_args.NetworkCode,
                                   r_args.StationCode, r_args.start_date, r_args.end_date)))
          /\ r_i' = 1
          /\ r_pc' = IF original_rs' = <<>> THEN "done" ELSE "begin"
          /\ UNCHANGED <<rinex, r_tx, r_log, r_failed>>
    /\ UNCHANGED <<r_args, r_snapshot, rinex0, archive, archive0, stnVars>>
    /\ UNCHANGED notRenVars

\* lines 559-580: the destination must exist; select the rows to transfer
RenameSelect ==
    /\ r_pc = "start"
    /\ \/ /\ RollbackAndRaise("query")
          /\ UNCHANGED <<original_rs, r_i>>
       \/ /\ StationOf(r_args.DestNetworkCode, r_args.DestStationCode) \notin stations
          /\ r_pc' = "done"
          /\ UNCHANGED <<rinex, original_rs, r_i, r_tx, r_log, r_failed>>
       \/ /\ StationOf(r_args.DestNetworkCode, r_args.DestStationCode) \in stations
          /\ original_rs' \in Orderings(Range(SelectStationBetween(rinex, r_args.NetworkCode,
                                   r_args.StationCode, r_args.start_date, r_args.end_date)))
          /\ r_i' = 1
          /\ r_pc' = IF original_rs' = <<>> THEN "done" ELSE "begin"
          /\ UNCHANGED <<rinex, r_tx, r_log, r_failed>>
    /\ UNCHANGED <<r_args, r_snapshot, rinex0, archive, archive0, stnVars>>
    /\ UNCHANGED notRenVars

\* lines 584-593: build the paths, begin the transaction of the file
RenameBegin ==
    /\ r_pc = "begin"
    /\ \/ /\ RollbackAndRaise("begin")
          /\ UNCHANGED r_snapshot
       \/ /\ r_tx' = r_tx + 1
          /\ r_snapshot' = rinex
          /\ r_log' = Append(r_log, "begin")
          /\ r_pc' = "update"
          /\ UNCHANGED <<rinex, r_failed>>
    /\ UNCHANGED <<r_args, original_rs, r_i, rinex0, archive, archive0, stnVars>>
    /\ UNCHANGED notRenVars

\* lines 596-601: UPDATE rinex; the key of the destination row must be free
RenameUpdate ==
    /\ r_pc = "update"
    /\ LET src_rinex == original_rs[r_i]
           dest_row  == DestRow(r_args, src_rinex)
       IN \/ RollbackAndRaise("update")
          \/ /\ \A r \in rinex \ {src_rinex} : RinexKey(r) # RinexKey(dest_row)
             /\ rinex' = IF src_rinex \in rinex
                         THEN (rinex \ {src_rinex}) \cup {dest_row}
                         ELSE rinex
             /\ r_pc' = "makedirs"
             /\ UNCHANGED <<r_tx, r_log, r_failed>>
    /\ UNCHANGED <<r_args, original_rs, r_i, r_snapshot, rinex0, archive, archive0, stnVars>>
    /\ UNCHANGED notRenVars

\* lines 606-610: the destination directory is made when it is missing
RenameMakedirs ==
    /\ r_pc = "makedirs"
    /\ \/ RollbackAndRaise("makedirs")
       \/ /\ r_pc' = "move"
          /\ UNCHANGED <<rinex, r_tx, r_log, r_failed>>
    /\ UNCHANGED <<r_args, original_rs, r_i, r_snapshot, rinex0, archive, archive0, stnVars>>
    /\ UNCHANGED notRenVars

\* line 612: shutil.move; it raises when the source file is missing
RenameMove ==
    /\ r_pc = "move"
    /\ LET src  == SrcPath(r_args, original_rs[r_i])
           dest == DestPath(r_args, original_rs[r_i])
       IN \/ /\ RollbackAndRaise("move")
             /\ UNCHANGED archive
          \/ /\ src \in archive
             /\ archive' = (archive \ {src}) \cup {dest}
             /\ r_pc' = "commit"
             /\ UNCHANGED <<rinex, r_tx, r_log, r_failed>>
    /\ UNCHANGED <<r_args, original_rs, r_i, r_snapshot, rinex0, archive0, stnVars>>
    /\ UNCHANGED notRenVars

\* a commit that leaves the transaction of the file open
RenameCommitLeavesOpen ==
    /\ r_pc = "commit"
    /\ \/ RollbackAndRaise("commit")
       \/ /\ r_log' = Append(r_log, "commit")
          /\ r_pc' = "stninfo"
          /\ UNCHANGED <<rinex, r_tx, r_failed>>
    /\ UNCHANGED <<r_args, original_rs, r_i, r_snapshot, rinex0, archive, archive0, stnVars>>
    /\ UNCHANGED notRenVars

\* line 615: commit
RenameCommit ==
    /\ r_pc = "commit"
    /\ \/ RollbackAndRaise("commit")
       \/ /\ r_tx' = r_tx - 1
          /\ r_log' = Append(r_log, "commit")
          /\ r_pc' = "stninfo"
          /\ UNCHANGED <<rinex, r_failed>>
    /\ UNCHANGED <<r_args, original_rs, r_i, r_snapshot, rinex0, archive, archive0, stnVars>>
    /\ UNCHANGED notRenVars

\* lines 617-638: station information transfer, then the next file
RenameStationInfo ==
    /\ r_pc = "stninfo"
    /\ \E insert_fails \in BOOLEAN :
          LET date == original_rs[r_i].ObservationDOY * TicksPerDay
              out  == StationInfoTransfer(stationinfo, r_args, date, insert_fails)
          IN IF out.raised
             THEN /\ RollbackAndRaise("stninfo")
                  /\ UNCHANGED <<stationinfo, r_i>>
             ELSE /\ stationinfo' = out.stationinfo
                  /\ r_i' = r_i + 1
                  /\ r_pc' = IF r_i = Len(original_rs) THEN "done" ELSE "begin"
                  /\ UNCHANGED <<rinex, r_tx, r_log, r_failed>>
    /\ UNCHANGED <<r_args, original_rs, r_snapshot, rinex0, archive, archive0, stations>>
    /\ UNCHANGED notRenVars

\* the stations of the rename: the source, and the possible destinations in
\* the same and in another network
RenameSource == StationOf(NetworkCodes[1], StationCodes[1])

RenameDests == {StationOf(NetworkCodes[1], StationCodes[2]), StationOf(NetworkCodes[2], StationCodes[2]),
                StationOf(NetworkCodes[2], StationCodes[5])}

RenameIdle ==
    /\ r_args = [NetworkCode |-> RenameSource.NetworkCode, StationCode |-> RenameSource.StationCode,
                 DestNetworkCode |-> RenameSource.NetworkCode, DestStationCode |-> RenameSource.StationCode,
                 start_date |-> 1, end_date |-> 1]
    /\ original_rs = <<>>
    /\ r_i = 0
    /\ r_pc = "idle"
    /\ r_tx = 0
    /\ r_snapshot = {}
    /\ r_failed = <<>>
    /\ r_log = <<>>

RenameStart ==
    /\ \E dst \in RenameDests :
          /\ r_args \in [NetworkCode : {RenameSource.NetworkCode}, StationCode : {RenameSource.StationCode},
                         DestNetworkCode : {dst.NetworkCode}, DestStationCode : {dst.StationCode},
                         start_date : {1}, end_date : 1..MaxRinexDay]
          /\ stations \in {{RenameSource}, {RenameSource, dst}}
          /\ rinex \in {T \in SUBSET {RinexRow(stn, d, 0) : stn \in {RenameSource, dst}, d \in 1..MaxRinexDay} :
                          /\ Cardinality({r \in T : r.StationCode = RenameSource.StationCode}) <= MaxFiles
                          /\ Cardinality({r \in T : r.StationCode = dst.StationCode}) <= 1}
          /\ stationinfo \in {S \cup D : S \in {{}} \cup {{r} : r \in InfoRecords(RenameSource)},
                                         D \in {{}} \cup {{r} : r \in InfoRecords(dst)}}
    /\ rinex0 = rinex
    /\ archive \in SUBSET {PathOf(r) : r \in rinex}
    /\ archive0 = archive
    /\ events = <<>>
    /\ original_rs = <<>>
    /\ r_i = 0
    /\ r_pc = "start"
    /\ r_tx = 0
    /\ r_snapshot = {}
    /\ r_failed = <<>>
    /\ r_log = <<>>

\* ------------------------------------------------------------------------
\* Properties of RenameStation
\* ------------------------------------------------------------------------
\* the number of transactions committed so far
Commits == Len(SelectSeq(r_log, LAMBDA e : e = "commit"))

\* C35: the station information transfer comes after all files have moved:
\* a record is inserted only once the transaction of the last selected file
\* has been committed
C35_TransferAfterAllFilesMoved ==
    [][stationinfo' # stationinfo =>
          /\ r_i = Len(original_rs)
          /\ Commits = Len(original_rs)]_vars

\* rollback_transac was called in this step
RollbackCalled == Len(r_log') = Len(r_log) + 1 /\ r_log'[Len(r_log')] = "rollback"

\* C37: rollback_transac is called only while a transaction that
\* begin_transac opened is neither committed nor rolled back, and at most
\* one transaction is open at a time
C37_RollbackOnlyInOpenTransaction ==
    [][/\ RollbackCalled => r_tx = 1
       /\ r_tx' \in {0, 1}]_vars

\* the destination station of the call is not in the stations table
DestinationMissing ==
    StationOf(r_args.DestNetworkCode, r_args.DestStationCode) \notin stations

\* C40: when the destination station is not in the stations table,
\* RenameStation changes nothing: no transaction is begun, no row of the
\* rinex table is updated, no archive file is moved and no station
\* information record is inserted
C40_MissingDestinationChangesNothing ==
    [][DestinationMissing =>
          /\ r_tx' = 0
          /\ \A k \in DOMAIN r_log' : r_log'[k] # "begin"
          /\ rinex' = rinex
          /\ archive' = archive
          /\ stationinfo' = stationinfo]_vars

\* RenameStation returned for a missing destination while the source had a
\* file in the range, with its row in the rinex table and a station
\* information record of its own
C40_Witness ==
    /\ DestinationMissing
    /\ r_pc = "done"
    /\ r_log = <<>>
    /\ \E r \in rinex : /\ r.NetworkCode = r_args.NetworkCode
                        /\ r.StationCode = r_args.StationCode
                        /\ r.ObservationDOY \in r_args.start_date..r_args.end_date
                        /\ PathOf(r) \in archive
    /\ StationRecords(stationinfo, r_args.NetworkCode, r_args.StationCode) # {}

\* file j of the transfer is migrated: row and file under the destination
Migrated(j) ==
    /\ DestRow(r_args, original_rs[j]) \in rinex
    /\ original_rs[j] \notin rinex
    /\ DestPath(r_args, original_rs[j]) \in archive
    /\ SrcPath(r_args, original_rs[j]) \notin archive

\* file j of the transfer is as it was before RenameStation was called
AsBefore(j) ==
    /\ original_rs[j] \in rinex
    /\ DestRow(r_args, original_rs[j]) \in rinex <=> DestRow(r_args, original_rs[j]) \in rinex0
    /\ SrcPath(r_args, original_rs[j]) \in archive <=> SrcPath(r_args, original_rs[j]) \in archive0
    /\ DestPath(r_args, original_rs[j]) \in archive <=> DestPath(r_args, original_rs[j]) \in archive0

\* the rows of the source station that were in the date range at the call
SourceRowsInRange ==
    {r \in rinex0 : /\ r.NetworkCode = r_args.NetworkCode
                    /\ r.StationCode = r_args.StationCode
                    /\ r_args.start_date * TicksPerDay <= r.ObservationSTime
                    /\ r.ObservationSTime <= r_args.end_date * TicksPerDay}

\* the row r as a row of the destination station, named after it
AsDestination(r) ==
    [r EXCEPT !.NetworkCode = r_args.DestNetworkCode,
              !.StationCode = r_args.DestStationCode,
              !.Filename = FilenameOf(r_args.DestStationCode, r.ObservationDOY)]

\* RenameStation returned after the transfer to an existing destination
RenameCompleted ==
    /\ r_pc = "done"
    /\ StationOf(r_args.DestNetworkCode, r_args.DestStationCode) \in stations

\* C11: when RenameStation completes without error, every row the source
\* had in the date range belongs to the destination with its file at the
\* path of the destination in the archive, and no other row was modified
C11_AllRowsAndFilesAtDestination ==
    RenameCompleted =>
        /\ \A r \in SourceRowsInRange :
              /\ r \notin rinex
              /\ AsDestination(r) \in rinex
              /\ PathOf(AsDestination(r)) \in archive
        /\ rinex \ {AsDestination(r) : r \in SourceRowsInRange} = rinex0 \ SourceRowsInRange

\* the steps of the processing of one file that C1 names
FileSteps == {"update", "makedirs", "move", "commit"}

\* C1: when a step (catalog update, directory creation, move, commit) of
\* file m raises and RenameStation exits, files 1..m-1 are migrated, file m
\* is as before the call (row and physical location), files m+1..M untouched
C1_FailedFileFullyRolledBack ==
    (r_pc = "raised" /\ r_failed[2] \in FileSteps) =>
        /\ \A j \in 1..(r_failed[1] - 1) : Migrated(j)
        /\ AsBefore(r_failed[1])
        /\ \A j \in (r_failed[1] + 1)..Len(original_rs) : AsBefore(j)

\* the begin_transac calls made so far
Begun == Cardinality({k \in DOMAIN r_log : r_log[k] = "begin"})

\* the commit_transac and rollback_transac calls that ended a transaction
Ended == Cardinality({k \in DOMAIN r_log : k > 1 /\ r_log[k] \in {"commit", "rollback"}
                                            /\ r_log[k - 1] = "begin"})

\* C10: each file goes through begin, update of the row, move of the file,
\* commit, in this order, and the transaction of a file is ended before the
\* next one begins: never two transactions open
C10_SerialFileTransactions ==
    /\ r_tx \in {0, 1}
    /\ r_tx = Begun - Ended
    /\ r_tx = 1 <=> r_pc \in FileSteps
    /\ \A k \in DOMAIN r_log : (k > 1 /\ r_log[k] = "begin") => r_log[k - 1] = "commit"
    /\ r_pc \in FileSteps =>
          /\ r_log[Len(r_log)] = "begin"
          /\ Begun = r_i
          /\ \A j \in 1..(r_i - 1) : Migrated(j)
    /\ r_pc = "update" => AsBefore(r_i)
    /\ r_pc \in {"makedirs", "move"} =>
          /\ DestRow(r_args, original_rs[r_i]) \in rinex
          /\ original_rs[r_i] \notin rinex
          /\ SrcPath(r_args, original_rs[r_i]) \in archive <=> SrcPath(r_args, original_rs[r_i]) \in archive0
          /\ DestPath(r_args, original_rs[r_i]) \notin archive
    /\ r_pc \in {"commit", "stninfo"} => Migrated(r_i)
    /\ r_pc = "stninfo" => r_log[Len(r_log)] = "commit"

\* the second file is about to commit, the first one committed before it began
C10_Witness ==
    /\ r_pc = "commit"
    /\ r_i = 2
    /\ r_tx = 1
    /\ r_log = <<"begin", "commit", "begin">>
    /\ Migrated(1)
    /\ Migrated(2)

\* the dates of the files RenameStation moved
MovedDates == {original_rs[j].ObservationDOY * TicksPerDay : j \in DOMAIN original_rs}

SourceRecords == StationRecords(stationinfo, r_args.NetworkCode, r_args.StationCode)

DestRecords == StationRecords(stationinfo, r_args.DestNetworkCode, r_args.DestStationCode)

\* C12: after RenameStation moved the files, at the date of every moved
\* file at which the source has an applicable record the destination has one
\* too, whether the destination had other records or none at all
C12_DestinationCoveredAtMovedDates ==
    RenameCompleted =>
        \A d \in MovedDates :
            StationInfoAt(SourceRecords, d) # <<>> => StationInfoAt(DestRecords, d) # <<>>

\* C13: every record RenameStation adds to the stationinfo table carries the
\* NetworkCode and the StationCode of the destination
C13_CopiedRecordRetagged ==
    [][\A r \in stationinfo' \ stationinfo :
          /\ r.NetworkCode = r_args.DestNetworkCode
          /\ r.StationCode = r_args.DestStationCode]_vars

\* ------------------------------------------------------------------------
\* StationInfoEdit
\* ------------------------------------------------------------------------
\* the dates that can be typed into DateStart and DateEnd
EditTicks == {d * TicksPerDay : d \in 1..MaxEditDay}

RECURSIVE OrderByDateStart(_)
OrderByDateStart(S) ==
    IF S = {} THEN <<>>
    ELSE LET first == CHOOSE r \in S : \A q \in S : r.DateStart <= q.DateStart
         IN <<first>> \o OrderByDateStart(S \ {first})

\* pyStationInfo.StationInfo(cnn, NetworkCode, StationCode, allow_empty=True).records
LoadRecords(tbl, st) == OrderByDateStart(StationRecords(tbl, st.NetworkCode, st.StationCode))

\* no field edited yet
NoEdits == [field \in {"DateStart", "DateEnd"} |-> <<>>]

\* no menu on display
NoMenu == [title |-> "closed", record_index |-> 0,
           items |-> [DateStart |-> <<>>, DateEnd |-> <<>>], edited_fields |-> NoEdits]

\* the record list with its entries Insert and Exit
MainMenu == [NoMenu EXCEPT !.title = "main"]

\* the stations the editor is started for
EditorStations == {StationOf(NetworkCodes[1], StationCodes[2]), StationOf(NetworkCodes[2], StationCodes[2])}

EditorIdle ==
    /\ e_stn = <<>>
    /\ StnInfo = <<>>
    /\ menu = NoMenu
    /\ e_last = "none"

\* lines 456-500 and MyApp: the station is found, its records are listed
EditorStart ==
    /\ e_stn = <<>>
    /\ r_pc = "idle"
    /\ \E st \in stations \cap EditorStations :
          /\ e_stn' = <<st>>
          /\ StnInfo' = LoadRecords(stationinfo, st)
    /\ menu' = MainMenu
    /\ e_last' = "start"
    /\ UNCHANGED <<stnVars, notEdtVars>>

\* selection_main_menu up to the display of the edit menu: a record is
\* opened for editing, or a blank record for insertion
selection_main_menu ==
    /\ menu.title = "main"
    /\ \E position \in 0..Len(StnInfo) :
          IF position < Len(StnInfo)
          THEN menu' = [title |-> "Editing", record_index |-> position,
                        items |-> [DateStart |-> <<StnInfo[position + 1].DateStart>>,
                                   DateEnd |-> <<StnInfo[position + 1].DateEnd>>],
                        edited_fields |-> NoEdits]
          ELSE /\ Cardinality(stationinfo) < MaxInfoRecords
               /\ menu' = [title |-> "New station information", record_index |-> 0,
                           items |-> [DateStart |-> <<>>, DateEnd |-> <<>>],
                           edited_fields |-> NoEdits]
    /\ e_last' = "select"
    /\ UNCHANGED <<e_stn, StnInfo, stnVars, notEdtVars>>

\* Enter on Exit in the main menu
EditorExit ==
    /\ menu.title = "main"
    /\ e_stn' = <<>>
    /\ StnInfo' = <<>>
    /\ menu' = NoMenu
    /\ e_last' = "none"
    /\ UNCHANGED <<stnVars, notEdtVars>>

\* enter_edit_mode and validate on a date field: a blank DateEnd becomes the
\* open date, the value goes to the item and to edited_fields
validate ==
    /\ menu.title \in {"Editing", "New station information"}
    /\ \E field \in {"DateStart", "DateEnd"}, edit_field \in {<<>>} \cup {<<t>> : t \in EditTicks} :
          /\ field = "DateStart" => edit_field # <<>>
          /\ LET value == IF edit_field = <<>> THEN <<OpenDateEnd>> ELSE edit_field
             IN menu' = [menu EXCEPT !.items[field] = value, !.edited_fields[field] = value]
    /\ e_last' = "validate"
    /\ UNCHANGED <<e_stn, StnInfo, stnVars, notEdtVars>>

\* a main menu rebuilt from the list that was loaded before the change
ReloadMainMenuStale(tbl) ==
    /\ StnInfo' = StnInfo
    /\ menu' = MainMenu
    /\ UNCHANGED e_stn

\* the tail of selection_main_menu: the edit menu is left, the records are
\* reloaded into the main menu
ReloadMainMenu(tbl) ==
    /\ StnInfo' = LoadRecords(tbl, e_stn[1])
    /\ menu' = MainMenu
    /\ UNCHANGED e_stn

\* the record save_changes builds from the items and the edited fields
EditedRecord ==
    LET DateStart == IF menu.edited_fields.DateStart # <<>> THEN menu.edited_fields.DateStart
                     ELSE menu.items.DateStart
        DateEnd   == IF menu.items.DateEnd = <<>> THEN <<OpenDateEnd>>
                     ELSE IF menu.edited_fields.DateEnd # <<>> THEN menu.edited_fields.DateEnd
                     ELSE menu.items.DateEnd
    IN IF DateStart = <<>> THEN <<>> ELSE <<InfoRecord(e_stn[1], DateStart[1], DateEnd[1])>>

\* save_changes called on Enter at "Save and exit": nothing edited leaves the
\* menu; a record without DateStart cannot be built and the exception leaves
\* the program; a refused insert or update shows the error and stays
save_changes ==
    /\ menu.title \in {"Editing", "New station information"}
    /\ IF menu.edited_fields = NoEdits
       THEN /\ ReloadMainMenu(stationinfo)
            /\ e_last' = "unchanged"
            /\ UNCHANGED stationinfo
       ELSE IF EditedRecord = <<>>
       THEN /\ e_stn' = <<>>
            /\ StnInfo' = <<>>
            /\ menu' = NoMenu
            /\ e_last' = "exception"
            /\ UNCHANGED stationinfo
       ELSE LET res == IF menu.title = "New station information"
                       THEN InsertStationInfo(stationinfo, Range(StnInfo), EditedRecord[1])
                       ELSE UpdateStationInfo(stationinfo, Range(StnInfo),
                                              StnInfo[menu.record_index + 1], EditedRecord[1])
            IN \/ /\ e_last' = "ShowError"
                  /\ UNCHANGED <<e_stn, StnInfo, menu, stationinfo>>
               \/ /\ res # <<>>
                  /\ stationinfo' = res[1]
                  /\ ReloadMainMenu(res[1])
                  /\ e_last' = "saved"
    /\ UNCHANGED <<stations, notEdtVars>>

\* control-D and Y in the edit menu
delete_record ==
    /\ menu.title \in {"Editing", "New station information"}
    /\ stationinfo' = IF menu.title # "New station information"
                      THEN DeleteStationInfo(stationinfo, StnInfo[menu.record_index + 1])
                      ELSE stationinfo
    /\ ReloadMainMenu(stationinfo')
    /\ e_last' = "delete"
    /\ UNCHANGED <<stations, notEdtVars>>

\* ESC in the edit menu
EditorEscape ==
    /\ menu.title \in {"Editing", "New station information"}
    /\ ReloadMainMenu(stationinfo)
    /\ e_last' = "escape"
    /\ UNCHANGED <<stnVars, notEdtVars>>

\* lines 926-937: RenameStation is called for a destination
RenameCall ==
    /\ r_pc = "idle"
    /\ e_stn = <<>>
    /\ \E dst \in RenameDests :
          r_args' = [r_args EXCEPT !.DestNetworkCode = dst.NetworkCode,
                                   !.DestStationCode = dst.StationCode,
                                   !.end_date = MaxRinexDay]
    /\ r_pc' = "start"
    /\ UNCHANGED <<original_rs, r_i, r_tx, r_snapshot, r_failed, r_log, catVars, stnVars>>
    /\ UNCHANGED <<gapVars, cmpVars, serVars, chkVars, dspVars, edtVars, spaVars, sicVars, fsVars, delVars, valVars, slVars, tcVars>>

\* the source station has one file and at most one record, the editor makes
\* the records of the destinations
StnInfoStart ==
    /\ stations = {RenameSource} \cup RenameDests
    /\ stationinfo \in {{}} \cup {{r} : r \in {q \in InfoRecords(RenameSource) :
                                                 q.DateStart \in EditTicks /\ q.DateEnd \in EditTicks \cup {OpenDateEnd}}}
    /\ rinex = {RinexRow(RenameSource, 1, 0)}
    /\ rinex0 = rinex
    /\ archive = {PathOf(r) : r \in rinex}
    /\ archive0 = archive
    /\ events = <<>>

\* ------------------------------------------------------------------------
\* Properties of the station information records
\* ------------------------------------------------------------------------
\* the records of a station with an open DateEnd
OpenRecords(st) ==
    {r \in StationRecords(stationinfo, st.NetworkCode, st.StationCode) : r.DateEnd = OpenDateEnd}

\* C2: whatever inserts, updates and deletes the editor and RenameStation
\* made through the store, no two records of a station have intersecting
\* intervals [DateStart, DateEnd) and at most one of them has an open DateEnd
C2_RecordsNeverOverlap ==
    \A st \in stations :
        /\ Consistent(StationRecords(stationinfo, st.NetworkCode, st.StationCode))
        /\ Cardinality(OpenRecords(st)) <= 1

\* the edit menu is displayed
EditMenuOpen == menu.title \in {"Editing", "New station information"}

\* Enter on "Save and exit" was handled in this step
SaveHandled ==
    /\ EditMenuOpen
    /\ e_last' \in {"unchanged", "exception", "ShowError", "saved"}
    /\ <<e_last, menu, stationinfo>>' # <<e_last, menu, stationinfo>>

\* C31: a failed insert or update shows the error and leaves the edit menu
\* open with its edited values; the edit menu closes on save only when the
\* catalog mutation succeeded or when no field was edited, and then nothing
\* is written to the catalog
C31_SaveClosesOnlyOnSuccess ==
    [][SaveHandled =>
          /\ e_last' = "ShowError" => menu' = menu /\ stationinfo' = stationinfo
          /\ menu' # menu =>
                \/ e_last' = "saved"
                \/ menu.edited_fields = NoEdits /\ stationinfo' = stationinfo]_vars

\* C32: whenever the main menu waits for a selection its list is the list
\* of the station's records in the catalog, and the record an edit menu was
\* opened for is a record of the catalog: no selection is applied to an
\* index of a list that an insert, update or delete has made stale
C32_SelectionsUseReloadedList ==
    /\ menu.title = "main" => StnInfo = LoadRecords(stationinfo, e_stn[1])
    /\ menu.title = "Editing" =>
          /\ menu.record_index + 1 \in DOMAIN StnInfo
          /\ StnInfo[menu.record_index + 1] \in stationinfo

\* the main menu after a save that changed the catalog
C32_Witness ==
    /\ menu.title = "main"
    /\ e_last = "saved"
    /\ Len(StnInfo) > 0

\* ------------------------------------------------------------------------
\* CheckSpatialCoherence
\* ------------------------------------------------------------------------
\* positions are metres along a line: stations and solutions lie on it
StationPositions == {0, 40, 90, 400}

SolutionPositions == {20, 60, 250}

\* the declared station and the stations a solution can fall next to: the
\* same code in another network, another code in either network
Declared == StationOf(NetworkCodes[1], StationCodes[1])

SpatialStations ==
    {StationOf(NetworkCodes[n], StationCodes[k]) : n \in 1..2, k \in 1..2}

Abs(x) == IF x < 0 THEN -x ELSE x

\* the distance column of the query of the resolver
WithDistance(st, pos) ==
    [NetworkCode |-> st.NetworkCode, StationCode |-> st.StationCode, distance |-> Abs(st.pos - pos)]

\* pyPPP.PPPSpatialCheck.verify_spatial_coherence(cnn, StationCode) for a
\* solution at pos; order is the order in which the stations table is read.
\* It is given the station code only and compares station codes.
verify_spatial_coherence(order, StationCode, pos) ==
    LET all       == [i \in DOMAIN order |-> WithDistance(order[i], pos)]
        stn_match == SelectSeq(all, LAMBDA m : m.distance <= Tolerance)
        min_all   == Min({all[i].distance : i \in DOMAIN all})
        closest   == SelectSeq(all, LAMBDA m : m.distance = min_all)
        by_name   == SelectSeq(stn_match, LAMBDA m : m.StationCode = StationCode)
    IN IF Len(stn_match) = 0
       THEN [Result |-> FALSE, match |-> <<>>, closest_stn |-> closest]
       ELSE IF Len(stn_match) = 1
       THEN [Result |-> stn_match[1].StationCode = StationCode, match |-> stn_match, closest_stn |-> <<>>]
       ELSE LET min_stn == SelectSeq(stn_match, LAMBDA m : m.distance = min_all)[1]
            IN IF min_stn.StationCode = StationCode
               THEN [Result |-> TRUE, match |-> <<min_stn>>, closest_stn |-> <<>>]
               ELSE IF Len(by_name) > 0
               THEN [Result |-> TRUE, match |-> by_name, closest_stn |-> <<min_stn>>]
               ELSE [Result |-> FALSE, match |-> stn_match, closest_stn |-> <<>>]

IdOf(m) == StationOf(m.NetworkCode, m.StationCode)

\* lines 406-447 with the last station of the table reported as the closest
SolutionLinesLastStation(order, NetworkCode, StationCode, soln) ==
    LET v == verify_spatial_coherence(order, StationCode, soln.pos)
    IN IF v.Result
       THEN IF Len(v.closest_stn) = 0
            THEN IF v.match[1].NetworkCode # NetworkCode /\ v.match[1].StationCode # StationCode
                 THEN << <<"only_candidate", soln.DOY, IdOf(v.match[1])>> >>
                 ELSE <<>>
            ELSE << <<"closer", soln.DOY, <<IdOf(v.closest_stn[1]), v.closest_stn[1].distance>>,
                      <<IdOf(v.match[1]), v.match[1].distance>> >> >>
       ELSE IF Len(v.match) = 1
            THEN << <<"best_match", soln.DOY, IdOf(v.match[1])>> >>
            ELSE IF Len(v.match) > 1
            THEN << <<"candidates", soln.DOY,
                      [i \in DOMAIN v.match |-> <<IdOf(v.match[i]), v.match[i].distance>>]>> >>
            ELSE << <<"no_match", soln.DOY, IdOf(order[Len(order)]),
                       Abs(order[Len(order)].pos - soln.pos)>> >>

\* lines 406-447: what is written for one solution
SolutionLines(order, NetworkCode, StationCode, soln) ==
    LET v == verify_spatial_coherence(order, StationCode, soln.pos)
    IN IF v.Result
       THEN IF Len(v.closest_stn) = 0
            THEN IF v.match[1].NetworkCode # NetworkCode /\ v.match[1].StationCode # StationCode
                 THEN << <<"only_candidate", soln.DOY, IdOf(v.match[1])>> >>
                 ELSE <<>>
            ELSE << <<"closer", soln.DOY, <<IdOf(v.closest_stn[1]), v.closest_stn[1].distance>>,
                      <<IdOf(v.match[1]), v.match[1].distance>> >> >>
       ELSE IF Len(v.match) = 1
            THEN << <<"best_match", soln.DOY, IdOf(v.match[1])>> >>
            ELSE IF Len(v.match) > 1
            THEN << <<"candidates", soln.DOY,
                      [i \in DOMAIN v.match |-> <<IdOf(v.match[i]), v.match[i].distance>>]>> >>
            ELSE << <<"no_match", soln.DOY, IdOf(v.closest_stn[1]), v.closest_stn[1].distance>> >>

\* the solutions of the station between the two dates, by day
RECURSIVE OrderByDOY(_)
OrderByDOY(S) ==
    IF S = {} THEN <<>>
    ELSE LET first == CHOOSE r \in S : \A q \in S : r.DOY <= q.DOY
         IN <<first>> \o OrderByDOY(S \ {first})

SelectSolutions(tbl, NetworkCode, StationCode, start_date, end_date) ==
    OrderByDOY({r \in tbl : /\ r.NetworkCode = NetworkCode /\ r.StationCode = StationCode
                            /\ start_date <= r.DOY /\ r.DOY <= end_date})

RECURSIVE SolutionLoop(_, _, _, _)
SolutionLoop(ppp, order, NetworkCode, StationCode) ==
    IF ppp = <<>> THEN <<>>
    ELSE SolutionLines(order, NetworkCode, StationCode, Head(ppp))
             \o SolutionLoop(Tail(ppp), order, NetworkCode, StationCode)

\* CheckSpatialCoherence(cnn, stnlist, start_date, end_date) for one station:
\* the lines written
CheckSpatialCoherence(tbl, order, NetworkCode, StationCode, start_date, end_date) ==
    LET ppp == SelectSolutions(tbl, NetworkCode, StationCode, start_date, end_date)
    IN IF Len(ppp) > 0
       THEN << <<"checking", NetworkCode, StationCode>> >> \o SolutionLoop(ppp, order, NetworkCode, StationCode)
       ELSE << <<"no_solutions", NetworkCode, StationCode>> >>

SpatialIdle ==
    /\ sc_stations = {}
    /\ ppp_soln = {}
    /\ ppp_soln_excl = {}
    /\ sc_args = [stn |-> Declared, start_date |-> 1, end_date |-> 1, disposition |-> "noop"]
    /\ sc_out = <<>>

\* the stations table holds the declared station and others, one row per
\* station; the solutions are solutions of the declared station
SpatialStart ==
    /\ sc_stations \in {T \in SUBSET [NetworkCode : {st.NetworkCode : st \in SpatialStations},
                                      StationCode : {st.StationCode : st \in SpatialStations},
                                      pos : StationPositions] :
                          /\ Cardinality(T) <= MaxSpatialStations
                          /\ \A r1, r2 \in T : IdOf(r1) = IdOf(r2) => r1 = r2
                          /\ \E r \in T : IdOf(r) = Declared}
    /\ ppp_soln \in {T \in SUBSET [NetworkCode : {Declared.NetworkCode}, StationCode : {Declared.StationCode},
                                   DOY : 1..MaxSolutions, pos : SolutionPositions] :
                          \A r1, r2 \in T : r1.DOY = r2.DOY => r1 = r2}
    /\ ppp_soln_excl = {}
    /\ sc_args \in {a \in [stn : {Declared}, start_date : 1..MaxSolutions, end_date : 1..MaxSolutions,
                           disposition : {"exclude", "delete", "noop"}] : a.start_date <= a.end_date}
    /\ sc_out = <<>>

\* lines 884-885: the check is called with the station list and the dates;
\* the disposition given on the command line is not passed on
RunCheckSpatialCoherence ==
    /\ sc_out = <<>>
    /\ \E order \in Orderings(sc_stations) :
          sc_out' = CheckSpatialCoherence(ppp_soln, order, sc_args.stn.NetworkCode, sc_args.stn.StationCode,
                                          sc_args.start_date, sc_args.end_date)
    /\ UNCHANGED <<sc_stations, ppp_soln, ppp_soln_excl, sc_args>>
    /\ UNCHANGED notSpaVars

\* ------------------------------------------------------------------------
\* Properties of CheckSpatialCoherence
\* ------------------------------------------------------------------------
\* the solutions the call examines
CheckedSolutions ==
    {r \in ppp_soln : /\ IdOf(r) = sc_args.stn
                      /\ sc_args.start_date <= r.DOY /\ r.DOY <= sc_args.end_date}

\* the stations within the tolerance of a solution
Candidates(soln) == {r \in sc_stations : Abs(r.pos - soln.pos) <= Tolerance}

\* the lines written about the solution of a day
LinesFor(doy) ==
    {sc_out[i] : i \in {j \in DOMAIN sc_out : sc_out[j][1] \notin {"checking", "no_solutions"}
                                               /\ sc_out[j][2] = doy}}

\* a station with its distance to a solution, as the lines name it
Named(r, soln) == <<IdOf(r), Abs(r.pos - soln.pos)>>

\* C14: exactly one station within 100 m: no line when its identity is the
\* declared one, in every other case a mismatch line naming the station found
C14_SingleCandidateByIdentity ==
    sc_out # <<>> =>
        \A soln \in CheckedSolutions :
            Cardinality(Candidates(soln)) = 1 =>
                LET found == CHOOSE r \in Candidates(soln) : TRUE
                IN IF IdOf(found) = sc_args.stn
                   THEN LinesFor(soln.DOY) = {}
                   ELSE \E l \in LinesFor(soln.DOY) :
                            l[1] \in {"only_candidate", "best_match"} /\ l[3] = IdOf(found)

\* C15: no station within 100 m: the one line written for the solution is
\* the no-match line, and the station it names is closest among all stations
C15_NoMatchNamesClosest ==
    sc_out # <<>> =>
        \A soln \in CheckedSolutions :
            Candidates(soln) = {} =>
                \E r \in sc_stations :
                    /\ \A q \in sc_stations : Abs(r.pos - soln.pos) <= Abs(q.pos - soln.pos)
                    /\ LinesFor(soln.DOY) = {<<"no_match", soln.DOY, IdOf(r), Abs(r.pos - soln.pos)>>}

\* a solution with no station within 100 m was examined, with stations at
\* different distances to choose the closest from
C15_Witness ==
    /\ sc_out # <<>>
    /\ \E soln \in CheckedSolutions :
          /\ Candidates(soln) = {}
          /\ \E r, q \in sc_stations : Abs(r.pos - soln.pos) < Abs(q.pos - soln.pos)
          /\ \E l \in LinesFor(soln.DOY) : l[1] = "no_match"

\* the stations a line lists with their distances
Listed(l) ==
    IF l[1] = "candidates" THEN Range(l[3])
    ELSE IF l[1] = "closer" THEN {l[3], l[4]}
    ELSE {}

\* C16: several stations within 100 m: no line only if exactly one candidate
\* is the declared station and no other candidate is closer; otherwise a
\* line listing all candidates with their distances
C16_SeveralCandidates ==
    sc_out # <<>> =>
        \A soln \in CheckedSolutions :
            Cardinality(Candidates(soln)) >= 2 =>
                LET declared  == {r \in Candidates(soln) : IdOf(r) = sc_args.stn}
                    confirmed == /\ Cardinality(declared) = 1
                                 /\ \A r \in declared, q \in Candidates(soln) :
                                        Abs(r.pos - soln.pos) <= Abs(q.pos - soln.pos)
                IN IF confirmed
                   THEN LinesFor(soln.DOY) = {}
                   ELSE \E l \in LinesFor(soln.DOY) :
                            Listed(l) = {Named(r, soln) : r \in Candidates(soln)}

\* C17: every solution a line was written about is in the excluded table
\* with 'exclude', is gone from the solutions with 'delete', and with 'noop'
\* both tables are as before
C17_DispositionApplied ==
    sc_out # <<>> =>
        /\ \A soln \in CheckedSolutions :
              LinesFor(soln.DOY) # {} =>
                  /\ sc_args.disposition = "exclude" => soln \in ppp_soln_excl
                  /\ sc_args.disposition = "delete" => soln \notin ppp_soln
        /\ sc_args.disposition = "noop" => ppp_soln_excl = {}

\* ------------------------------------------------------------------------
\* StnInfoCheck
\* ------------------------------------------------------------------------
\* times of this check are seconds
CheckSeconds == 1..MaxCheckSecond

\* the stations of the list: the first with any records, the second with
\* none or a single one
CheckStations ==
    <<StationOf(NetworkCodes[1], StationCodes[1]), StationOf(NetworkCodes[1], StationCodes[2])>>

\* the records a station can have in the table; within a station a record is
\* identified by its DateStart
CheckRecords(stn) ==
    {r \in {InfoRecord(stn, ds, de) : ds \in CheckSeconds, de \in CheckSeconds \cup {OpenDateEnd}} :
        r.DateStart < r.DateEnd}

CheckTables(stn, n) ==
    {T \in SetsUpTo(CheckRecords(stn), n) : \A r1, r2 \in T : r1.DateStart = r2.DateStart => r1 = r2}

\* a row of rinex_proc
RinexProcRow(stn, t) ==
    [NetworkCode |-> stn.NetworkCode, StationCode |-> stn.StationCode, ObservationSTime |-> t]

\* truth value of a pyDate.Date object, as line 262 tests it with 'not': an
\* object is true, the date 9999 999 of an open record as any other
DateIsTrue(date) == date \in Int

\* (sdate.datetime() - edate.datetime()).total_seconds > 1 of line 308: the
\* method itself, not its result, is compared with 1. Python 2 orders a
\* number before any other object, <<TRUE>>; python 3 raises TypeError, <<>>
TotalSecondsMethodGreaterThanOne(py) == IF py = "py2" THEN <<TRUE>> ELSE <<>>

\* Utils.determine_frame: <<name, atx>> of the first frame whose dates hold
\* the date, <<>> when it raises Exception because there is none
RECURSIVE determine_frame(_, _)
determine_frame(frames, date) ==
    IF frames = <<>> THEN <<>>
    ELSE IF Head(frames).dates[1] <= date /\ date <= Head(frames).dates[2]
         THEN <<Head(frames).name, Head(frames).atx>>
         ELSE determine_frame(Tail(frames), date)

\* the frames of the configuration: one frame, from the first second or
\* from the second one
FrameConfigs ==
    {<<[name |-> "frame", dates |-> <<from, OpenDateEnd>>, atx |-> "atx"]>> : from \in 1..2}

\* lines 261-262
empty_edata(records) == SelectSeq(records, LAMBDA record : ~DateIsTrue(record.DateEnd))

\* lines 275-296: per record, the overlapping records with another DateStart
RECURSIVE list_problems(_, _)
list_problems(records, i) ==
    IF i > Len(records) THEN <<>>
    ELSE LET record == records[i]
             found  == SelectSeq(records, LAMBDA overlap :
                                     /\ overlap \in overlaps(Range(records), record)
                                     /\ overlap.DateStart # record.DateStart)
         IN [k \in 1..Len(found) |-> <<found[k], record>>] \o list_problems(records, i + 1)

\* lines 309-314: the rows of the station strictly between edate and sdate
GapCount(rnx, stn, edate, sdate) ==
    Cardinality({x \in rnx : /\ x.NetworkCode = stn.NetworkCode
                             /\ x.StationCode = stn.StationCode
                             /\ x.ObservationSTime > edate
                             /\ x.ObservationSTime < sdate})

\* line 321: d1 + (d2 - d1)/2 with d1 = sdate and d2 = edate
GapMidpoint(sdate, edate) == sdate + ((edate - sdate) \div 2)

\* lines 301-324 from pair i on, with the comparison of line 308 true:
\* [gaps, queries]
RECURSIVE GapWalk(_, _, _, _)
GapWalk(records, rnx, stn, i) ==
    IF i >= Len(records) THEN [gaps |-> <<>>, queries |-> <<>>]
    ELSE LET erecord == records[i]
             srecord == records[i + 1]
             sdate   == srecord.DateStart
             edate   == erecord.DateEnd
             count   == GapCount(rnx, stn, edate, sdate)
             rest    == GapWalk(records, rnx, stn, i + 1)
             here    == IF count # 0 /\ StationInfoAt(Range(records), GapMidpoint(sdate, edate)) = <<>>
                        THEN << <<"gap", count, erecord, srecord>> >>
                        ELSE <<>>
         IN [gaps    |-> here \o rest.gaps,
             queries |-> << <<edate, sdate>> >> \o rest.queries]

\* lines 327-347: RINEX data before the first or after the last record
OutsideLines(records, rnx, stn) ==
    LET times == {x.ObservationSTime : x \in {y \in rnx : /\ y.NetworkCode = stn.NetworkCode
                                                          /\ y.StationCode = stn.StationCode}}
    IN IF times = {} THEN <<>>
       ELSE (IF Min(times) < records[1].DateStart
             THEN << <<"outside_start", Min(times), records[1].DateStart>> >> ELSE <<>>)
            \o (IF Max(times) > records[Len(records)].DateEnd
                THEN << <<"outside_end", Max(times), records[Len(records)].DateEnd>> >> ELSE <<>>)

\* lines 253-376 for one station: the lines written, the queries made for
\* gaps, and whether an exception left StnInfoCheck
CheckOneStation(tbl, rnx, stn, atx_problem, py, frames) ==
    LET records == LoadRecords(tbl, stn)
        framed  == \A i \in DOMAIN records : determine_frame(frames, records[i].DateStart) # <<>>
        empty   == empty_edata(records)
        open    == IF Len(empty) > 1
                   THEN << <<"more_than_one_open", [k \in 1..Len(empty) |-> empty[k].DateStart]>> >>
                   ELSE <<>>
        atx     == IF atx_problem /\ determine_frame(frames, records[1].DateStart) # <<>>
                   THEN << <<"atx_error">> >> ELSE <<>>
        probs   == list_problems(records, 1)
        walk    == GapWalk(records, rnx, stn, 1)
        outside == OutsideLines(records, rnx, stn)
        summary == IF Len(empty) > 1 \/ Len(probs) > 0 \/ Len(outside) > 0
                      \/ Len(walk.gaps) > 0 \/ atx_problem
                   THEN << <<"stninfo_short">> >> ELSE << <<"no_problems">> >>
    IN IF records = <<>>
       THEN [out |-> << <<"exception">> >>, queries |-> <<>>, raised |-> FALSE]
       ELSE IF ~framed
       THEN [out |-> open \o atx, queries |-> <<>>, raised |-> TRUE]
       ELSE IF Len(records) > 1 /\ TotalSecondsMethodGreaterThanOne(py) = <<>>
       THEN [out |-> open \o atx, queries |-> <<>>, raised |-> TRUE]
       ELSE [out |-> open \o atx \o outside \o walk.gaps
                       \o (IF Len(probs) > 0 THEN << <<"conflicts", probs>> >> ELSE <<>>)
                       \o summary,
             queries |-> walk.queries, raised |-> FALSE]

StnCheckIdle ==
    /\ rinex_proc = {}
    /\ si_stnlist = <<>>
    /\ si_py = "py2"
    /\ si_frames = <<>>
    /\ si_i = 1
    /\ si_pc = "idle"
    /\ si_out = <<>>
    /\ si_queries = <<>>

\* the tables before StnInfoCheck is called: any records, intersecting or
\* not, since finding them is what the check is for
StnCheckStart ==
    /\ stations = Range(CheckStations)
    /\ \E T1 \in CheckTables(CheckStations[1], MaxCheckRecords),
          T2 \in {{}, {InfoRecord(CheckStations[2], 1, OpenDateEnd)}} :
          stationinfo = T1 \cup T2
    /\ rinex_proc \in {T \in SUBSET {RinexProcRow(CheckStations[1], t) : t \in CheckSeconds} :
                          Cardinality(T) <= MaxCheckRinex}
    /\ si_stnlist = CheckStations
    /\ si_py \in {"py2", "py3"}
    /\ si_frames \in FrameConfigs
    /\ si_i = 1
    /\ si_pc = "running"
    /\ si_out = <<>>
    /\ si_queries = <<>>

\* a check that removes the records it found overlapping another one
TablesAfterCheckRepaired(tbl, rnx, stn) ==
    LET records == LoadRecords(tbl, stn)
    IN [stationinfo |-> tbl \ {list_problems(records, 1)[k][1] : k \in DOMAIN list_problems(records, 1)},
        rinex_proc  |-> rnx]

\* lines 253-376 for one station: the tables afterwards. The statements of
\* lines 258, 309, 320 and 327 are a load of the station's records and
\* SELECTs on rinex_proc; nothing is written
TablesAfterCheck(tbl, rnx, stn) == [stationinfo |-> tbl, rinex_proc |-> rnx]

\* one pass of the loop of line 252; an exception other than
\* pyStationInfoException ends the loop
StnInfoCheck ==
    /\ si_pc = "running"
    /\ \E atx_problem \in BOOLEAN :
          LET res == CheckOneStation(stationinfo, rinex_proc, si_stnlist[si_i], atx_problem, si_py,
                                     si_frames)
              tables == TablesAfterCheck(stationinfo, rinex_proc, si_stnlist[si_i])
          IN /\ si_out' = Append(si_out, res.out)
             /\ si_queries' = Append(si_queries, res.queries)
             /\ si_pc' = IF res.raised THEN "raised"
                         ELSE IF si_i = Len(si_stnlist) THEN "done" ELSE "running"
             /\ si_i' = IF res.raised THEN si_i ELSE si_i + 1
             /\ stationinfo' = tables.stationinfo
             /\ rinex_proc' = tables.rinex_proc
    /\ UNCHANGED <<stations, si_stnlist, si_py, si_frames>>
    /\ UNCHANGED <<gapVars, cmpVars, serVars, catVars, chkVars, dspVars, renVars, edtVars, spaVars,
                   fsVars, delVars, valVars, slVars, tcVars>>

\* ------------------------------------------------------------------------
\* Properties of StnInfoCheck
\* ------------------------------------------------------------------------
\* the stations (as indexes of the list) whose check was made
StationsChecked == DOMAIN si_out

\* the records of the station at index i
RecordsOf(i) == StationRecords(stationinfo, si_stnlist[i].NetworkCode, si_stnlist[i].StationCode)

\* the lines of a kind written about the station at index i
LinesOfKind(i, kind) == {si_out[i][k] : k \in {j \in DOMAIN si_out[i] : si_out[i][j][1] = kind}}

\* the pairs of records the conflict lines of the station at index i name
ConflictsReported(i) == UNION {Range(l[2]) : l \in LinesOfKind(i, "conflicts")}

\* C18: a conflict is reported for every pair of distinct records of a
\* station whose intervals intersect, and none when no two intersect
C18_EveryIntersectingPairReported ==
    \A i \in StationsChecked :
        /\ \A r1, r2 \in RecordsOf(i) :
              r1 # r2 /\ Intersects(r1, r2) =>
                  <<r1, r2>> \in ConflictsReported(i) \/ <<r2, r1>> \in ConflictsReported(i)
        /\ (\A r1, r2 \in RecordsOf(i) : r1 # r2 => ~Intersects(r1, r2)) =>
              LinesOfKind(i, "conflicts") = {}

\* the records of the station at index i with an open DateEnd
OpenOf(i) == {r \in RecordsOf(i) : r.DateEnd = OpenDateEnd}

\* the open record is the chronologically last one
OpenIsLast(i) == \A o \in OpenOf(i), r \in RecordsOf(i) : r.DateStart <= o.DateStart

\* C19: more than one open record is reported, a single open record that is
\* not the last one is reported (as a conflict with a later record), and a
\* station with at most one open record that is the last one gets no report
\* of several open records
C19_OpenRecordsReported ==
    \A i \in StationsChecked :
        /\ Cardinality(OpenOf(i)) > 1 => LinesOfKind(i, "more_than_one_open") # {}
        /\ Cardinality(OpenOf(i)) = 1 /\ ~OpenIsLast(i) =>
              \E p \in ConflictsReported(i) : p[1] \in OpenOf(i) \/ p[2] \in OpenOf(i)
        /\ Cardinality(OpenOf(i)) <= 1 /\ OpenIsLast(i) =>
              LinesOfKind(i, "more_than_one_open") = {}

\* the consecutive pairs of records of the station at index i
ConsecutivePairs(i) ==
    LET records == LoadRecords(stationinfo, si_stnlist[i])
    IN {<<records[k], records[k + 1]>> : k \in 1..(Len(records) - 1)}

\* the check of the station at index i went on to its last line
ContinuedNormally(i) ==
    LinesOfKind(i, "stninfo_short") \cup LinesOfKind(i, "no_problems") # {}

\* C20: for a pair of consecutive records with a gap of more than a second
\* the gap is reported if and only if inventory rows start strictly inside it
\* and no record applies at its midpoint, with the number of those rows; a
\* pair with a gap of at most a second causes no query and no report, and
\* the check of the station goes on
C20_GapsBetweenConsecutiveRecords ==
    \A i \in StationsChecked :
        \A p \in ConsecutivePairs(i) :
            LET erecord == p[1]
                srecord == p[2]
                count   == GapCount(rinex_proc, si_stnlist[i], erecord.DateEnd, srecord.DateStart)
                covered == \E r \in RecordsOf(i) :
                               /\ 2 * r.DateStart <= erecord.DateEnd + srecord.DateStart
                               /\ erecord.DateEnd + srecord.DateStart < 2 * r.DateEnd
            IN IF srecord.DateStart - erecord.DateEnd > 1
               THEN /\ (count # 0 /\ ~covered) =>
                           <<"gap", count, erecord, srecord>> \in LinesOfKind(i, "gap")
                    /\ \A l \in LinesOfKind(i, "gap") :
                           l[3] = erecord /\ l[4] = srecord => count # 0 /\ ~covered /\ l[2] = count
               ELSE /\ <<erecord.DateEnd, srecord.DateStart>> \notin Range(si_queries[i])
                    /\ \A l \in LinesOfKind(i, "gap") : ~(l[3] = erecord /\ l[4] = srecord)
                    /\ ContinuedNormally(i)

\* the observation times of the inventory rows of the station at index i
ObservationsOf(i) ==
    {x.ObservationSTime : x \in {y \in rinex_proc : /\ y.NetworkCode = si_stnlist[i].NetworkCode
                                                     /\ y.StationCode = si_stnlist[i].StationCode}}

\* the earliest observation is before the first record or the latest one
\* after the end of the last record
OutOfWindow(i) ==
    LET records == LoadRecords(stationinfo, si_stnlist[i])
    IN /\ ObservationsOf(i) # {}
       /\ \/ Min(ObservationsOf(i)) < records[1].DateStart
          \/ Max(ObservationsOf(i)) > records[Len(records)].DateEnd

\* C21: for a station with records, observations outside the window of the
\* records are reported if and only if there are any; a station without
\* inventory rows gets no such report
C21_OutOfWindowReported ==
    \A i \in StationsChecked :
        RecordsOf(i) # {} =>
            (LinesOfKind(i, "outside_start") \cup LinesOfKind(i, "outside_end") # {}) <=> OutOfWindow(i)

\* C24: a failure while checking a station is reported for that station
\* and the remaining stations of the list are checked: no exception leaves
\* StnInfoCheck, and a station without records gets its line
C24_FailureDoesNotStopTheList ==
    /\ si_pc # "raised"
    /\ \A i \in StationsChecked : RecordsOf(i) = {} => LinesOfKind(i, "exception") # {}
    /\ si_pc = "done" => StationsChecked = DOMAIN si_stnlist

\* C36: StnInfoCheck is read-only: whatever it detects, the station
\* information records and the inventory rows after a step of the check are
\* those before it
C36_CheckIsReadOnly ==
    [][/\ stationinfo' = stationinfo
       /\ rinex_proc' = rinex_proc
       /\ rinex' = rinex]_vars

\* the check ended after it reported conflicting records and data before
\* the first record
C36_Witness ==
    /\ si_pc = "done"
    /\ LinesOfKind(1, "conflicts") # {}
    /\ LinesOfKind(1, "outside_start") # {}
    /\ stationinfo # {}

\* ------------------------------------------------------------------------
\* Utils: _increment_filename, copyfile, move
\* ------------------------------------------------------------------------
\* line 110: the session characters; the source has 36 of them
sessions == [i \in 1..MaxSessions |-> i - 1]

\* a file name: station code, day of year, session, year, extension
FileName(station, doy, session, yy, ext) == <<station, doy, session, yy, ext>>

\* a path: directory and file name
Path(dir, name) == [dir |-> dir, name |-> name]

\* parse_crinex_rinex_filename: the five parts of a name that ends in d.Z or
\* in o, [] (here <<>>) for any other name
parse_crinex_rinex_filename(filename) ==
    IF filename[5] \in {"d.Z", "o"} THEN filename ELSE <<>>

\* lines 123 and 135: the name built from the parts and sessions[value]
SessionPath(path, fileparts, value) ==
    Path(path.dir, FileName(Lower(fileparts[1]), fileparts[2], sessions[value + 1],
                            fileparts[4], fileparts[5]))

\* one next() of the generator of _increment_filename(filename) with the
\* counter at value (<<>> before the first next()):
\* [value, yield] with yield = <<>> when it raises ValueError
increment_filename_next(filename, value) ==
    LET fileparts == parse_crinex_rinex_filename(filename.name)
    IN IF fileparts = <<>> THEN [value |-> value, yield |-> <<>>]
       ELSE IF value = <<>> THEN [value |-> <<0>>, yield |-> <<SessionPath(filename, fileparts, 0)>>]
       ELSE IF value[1] + 1 = Len(sessions) THEN [value |-> <<value[1] + 1>>, yield |-> <<>>]
       ELSE [value |-> <<value[1] + 1>>,
             yield |-> <<SessionPath(filename, fileparts, value[1] + 1)>>]

\* a file: its content, with its size, and its modification time
FileContents == {<<"x">>, <<"y">>, <<"z", "z">>}

FileTimes == {1, 2}

File(content, mtime) == [content |-> content, mtime |-> mtime]

Files == {File(c, t) : c \in FileContents, t \in FileTimes}

\* filecmp.cmp(f1, f2) with shallow=True, the default: files with the same
\* os.stat() signature (type, size, modification time) are taken to be equal
\* without reading them; otherwise the contents are compared
filecmp_cmp(f1, f2) ==
    IF Len(f1.content) = Len(f2.content) /\ f1.mtime = f2.mtime THEN TRUE
    ELSE f1.content = f2.content

\* os.path.exists
exists(files, path) == path \in DOMAIN files

\* the file system with a file at path
WithFile(files, path, file) ==
    [p \in DOMAIN files \cup {path} |-> IF p = path THEN file ELSE files[p]]

\* os.remove
Removed(files, path) == [p \in DOMAIN files \ {path} |-> files[p]]

\* the paths of the archive directory a name can have, and one path of
\* another directory
ArchivePaths ==
    {Path("archive", FileName(<<"a", "b">>, 1, sessions[k], 18, "d.Z")) : k \in DOMAIN sessions}

IncomingPath == Path("incoming", FileName(<<"a", "b">>, 1, 0, 18, "d.Z"))

\* the destinations of a call: a path of the archive, the same with the
\* station code in capitals, and a name that is not a RINEX name
DestinationPaths ==
    ArchivePaths
    \cup {Path("archive", FileName(<<"A", "b">>, 1, 0, 18, "d.Z")),
          Path("archive", FileName(<<"a", "b">>, 1, 0, 18, "gz"))}

FilesIdle ==
    /\ fs = <<>>
    /\ fs0 = <<>>
    /\ f_args = [op |-> "copyfile", src |-> IncomingPath, dst |-> IncomingPath]
    /\ f_pc = "idle"
    /\ f_value = <<>>
    /\ f_dst = <<>>
    /\ f_yielded = <<>>
    /\ f_wrote = {}
    /\ f_others = {}
    /\ f_ret = <<>>

\* a call of copyfile or move: the source is a file of the archive or of
\* another directory, or does not exist
FilesStart ==
    /\ \E P \in SUBSET (ArchivePaths \cup {IncomingPath}) : fs \in [P -> Files]
    /\ fs0 = fs
    /\ f_args \in [op : {"copyfile", "move"}, src : ArchivePaths \cup {IncomingPath},
                   dst : DestinationPaths]
    /\ exists(fs, f_args.src) => fs[f_args.src] = File(<<"x">>, 1)
    /\ f_pc = "start"
    /\ f_value = <<>>
    /\ f_dst = <<>>
    /\ f_yielded = <<>>
    /\ f_wrote = {}
    /\ f_others = {}
    /\ f_ret = <<>>

\* lines 147-160: ValueError when the source does not exist; the folders are
\* made; the generator is created
CopyfileStart ==
    /\ f_pc = "start"
    /\ f_pc' = IF exists(fs, f_args.src) THEN "next" ELSE "raised"
    /\ UNCHANGED <<fs, fs0, f_args, f_value, f_dst, f_yielded, f_wrote, f_others, f_ret>>
    /\ UNCHANGED notFsVars

\* line 164: dst = next(dst_gen)
CopyfileNext ==
    /\ f_pc = "next"
    /\ LET n == increment_filename_next(f_args.dst, f_value)
       IN /\ f_value' = n.value
          /\ IF n.yield = <<>>
             THEN /\ f_pc' = "raised"
                  /\ UNCHANGED <<f_dst, f_yielded>>
             ELSE /\ f_pc' = "exists"
                  /\ f_dst' = n.yield
                  /\ f_yielded' = Append(f_yielded, n.yield[1])
    /\ UNCHANGED <<fs, fs0, f_args, f_wrote, f_others, f_ret>>
    /\ UNCHANGED notFsVars

\* what follows the return of copyfile: the caller of copyfile has its
\* result, move goes on to os.remove
AfterCopy == IF f_args.op = "move" THEN "remove" ELSE "returned"

\* lines 167-172: a file at the candidate path that compares equal to the
\* source ends the loop; one that does not leads to the next candidate
CopyfileExists ==
    /\ f_pc = "exists"
    /\ IF exists(fs, f_dst[1])
       THEN IF filecmp_cmp(fs[f_args.src], fs[f_dst[1]])
            THEN /\ f_pc' = AfterCopy
                 /\ f_ret' = IF f_args.op = "move" THEN f_ret ELSE f_dst
            ELSE /\ f_pc' = "next"
                 /\ UNCHANGED f_ret
       ELSE /\ f_pc' = "open"
            /\ UNCHANGED f_ret
    /\ UNCHANGED <<fs, fs0, f_args, f_value, f_dst, f_yielded, f_wrote, f_others>>
    /\ UNCHANGED notFsVars

\* lines 185-209: os.open with O_EXCL | O_CREAT and the copy of the bytes.
\* A file that came into existence at the candidate path gives OSError 17
\* and the next candidate; any other OSError is raised
CopyfileWrite ==
    /\ f_pc = "open"
    /\ IF exists(fs, f_dst[1])
       THEN /\ f_pc' = "next"
            /\ UNCHANGED <<fs, f_wrote, f_ret>>
       ELSE \/ /\ fs' = WithFile(fs, f_dst[1], File(fs[f_args.src].content, 2))
               /\ f_wrote' = f_wrote \cup {f_dst[1]}
               /\ f_pc' = AfterCopy
               /\ f_ret' = IF f_args.op = "move" THEN f_ret ELSE f_dst
            \/ /\ f_pc' = "raised"
               /\ UNCHANGED <<fs, f_wrote, f_ret>>
    /\ UNCHANGED <<fs0, f_args, f_value, f_dst, f_yielded, f_others>>
    /\ UNCHANGED notFsVars

\* lines 221-223 of move: os.remove(src); return dst
MoveRemove ==
    /\ f_pc = "remove"
    /\ fs' = Removed(fs, f_args.src)
    /\ f_ret' = f_dst
    /\ f_pc' = "returned"
    /\ UNCHANGED <<fs0, f_args, f_value, f_dst, f_yielded, f_wrote, f_others>>
    /\ UNCHANGED notFsVars

\* another worker creates a file in the archive while the call is under way
OtherWorkerCreates ==
    /\ f_pc \in {"next", "exists", "open"}
    /\ Cardinality(f_others) < MaxOtherFiles
    /\ \E path \in ArchivePaths, content \in FileContents :
          /\ ~exists(fs, path)
          /\ fs' = WithFile(fs, path, File(content, 2))
          /\ f_others' = f_others \cup {path}
    /\ UNCHANGED <<fs0, f_args, f_pc, f_value, f_dst, f_yielded, f_wrote, f_ret>>
    /\ UNCHANGED notFsVars

\* ------------------------------------------------------------------------
\* Properties of copyfile and move
\* ------------------------------------------------------------------------
\* the content of the source when the call began
SourceContent == fs0[f_args.src].content

\* copyfile returned to its caller
CopyfileReturned == f_args.op = "copyfile" /\ f_pc = "returned"

\* C25: no file that exists is overwritten or modified; when the file at the
\* destination has the content of the source nothing is written and the
\* destination is returned; when it differs the copy is at the returned
\* path, which is another path and one the call created the file at
C25_NoOverwriteNewNameWhenDifferent ==
    /\ \A p \in DOMAIN fs0 : exists(fs, p) => fs[p] = fs0[p]
    /\ \A p \in f_others : exists(fs, p) => p \notin f_wrote
    /\ (CopyfileReturned /\ exists(fs0, f_args.dst)) =>
          IF fs0[f_args.dst].content = SourceContent
          THEN f_wrote = {} /\ f_ret = <<f_args.dst>>
          ELSE /\ f_ret[1] # f_args.dst
               /\ fs[f_ret[1]].content = SourceContent
               /\ f_wrote \subseteq {f_ret[1]}
               /\ f_ret[1] \in f_wrote => ~exists(fs0, f_ret[1]) /\ f_ret[1] \notin f_others

\* C26: when move returned p, a file with the content of the source is at p
\* and the source path holds no other copy; when move raised, the source
\* file is in its place
C26_MoveKeepsTheContent ==
    f_args.op = "move" =>
        /\ f_pc = "returned" =>
              /\ exists(fs, f_ret[1]) /\ fs[f_ret[1]].content = SourceContent
              /\ f_ret[1] # f_args.src => ~exists(fs, f_args.src)
        /\ (f_pc = "raised" /\ exists(fs0, f_args.src)) =>
              exists(fs, f_args.src) /\ fs[f_args.src] = fs0[f_args.src]

\* C27: when the name given has a session counter, the names generated go
\* on from that counter, and no name is generated twice
C27_CounterContinues ==
    /\ \A i \in DOMAIN f_yielded :
          f_args.dst.name[3] > 0 => f_yielded[i].name[3] >= f_args.dst.name[3]
    /\ \A i, j \in DOMAIN f_yielded : i # j => f_yielded[i] # f_yielded[j]

\* ------------------------------------------------------------------------
\* DeleteRinex
\* ------------------------------------------------------------------------
\* Completion in hundredths: 0.0, 0.5, 1.0
Completions == {0, 50, 100}

\* a row of the rinex table as DeleteRinex reads it; ObservationFYear is the
\* fractional year of the day of the observation
DeleteRow(stn, d, completion) ==
    [NetworkCode |-> stn.NetworkCode, StationCode |-> stn.StationCode,
     ObservationYear |-> BaseYear, ObservationDOY |-> d, ObservationFYear |-> d,
     Completion |-> completion]

\* pyDate.Date.fyear of a day
fyear(date) == date

\* lines 738-743: the rows of the station with "ObservationFYear" BETWEEN the
\* two dates AND "Completion" <= the limit
SelectForDelete(tbl, NetworkCode, StationCode, start_date, end_date, completion_limit) ==
    {r \in tbl : /\ r.NetworkCode = NetworkCode /\ r.StationCode = StationCode
                 /\ fyear(start_date) <= r.ObservationFYear /\ r.ObservationFYear <= fyear(end_date)
                 /\ r.Completion <= completion_limit}

\* the value of rnx[key] in the except clause of line 753: <<>> for KeyError
RowField(rnx, key) == IF key \in DOMAIN rnx THEN <<rnx[key]>> ELSE <<>>

\* lines 746-755 from row i on: [rinex, out, raised]; Archive.remove_rinex
\* raises dbErrDelete for the rows in fails
RECURSIVE DeleteLoop(_, _, _, _)
DeleteLoop(rows, i, st, fails) ==
    IF i > Len(rows) THEN st
    ELSE LET rnx == rows[i]
         IN IF rnx \notin fails
            THEN DeleteLoop(rows, i + 1, [st EXCEPT !.rinex = st.rinex \ {rnx}], fails)
            ELSE IF RowField(rnx, "Year") = <<>> \/ RowField(rnx, "DOY") = <<>>
            THEN [st EXCEPT !.raised = TRUE]
            ELSE DeleteLoop(rows, i + 1,
                            [st EXCEPT !.out = Append(st.out, <<"Failed to delete", RowField(rnx, "Year")[1],
                                                                RowField(rnx, "DOY")[1]>>)],
                            fails)

DeleteIdle ==
    /\ dr_args = [stnlist |-> <<>>, start_date |-> 1, end_date |-> 1, completion_limit |-> 0, fails |-> {}]
    /\ dr_i = 1
    /\ dr_pc = "idle"
    /\ dr_out = <<>>

\* the rinex table has at most one row per station and day; the removal of
\* at most one row fails
DeleteStart ==
    /\ rinex \in {T \in SUBSET ({DeleteRow(StationA, d, c) : d \in 1..MaxDeleteDay, c \in Completions}
                                \cup {DeleteRow(StationB, 1, c) : c \in Completions}) :
                    \A r1, r2 \in T : (r1.StationCode = r2.StationCode
                                       /\ r1.ObservationDOY = r2.ObservationDOY) => r1 = r2}
    /\ rinex0 = rinex
    /\ archive = {}
    /\ archive0 = {}
    /\ events = <<>>
    /\ dr_args \in {a \in [stnlist : {<<StationA, StationB>>}, start_date : 1..MaxDeleteDay,
                           end_date : 1..MaxDeleteDay, completion_limit : Completions,
                           fails : {{}} \cup {{r} : r \in rinex}] : a.start_date <= a.end_date}
    /\ dr_i = 1
    /\ dr_pc = "running"
    /\ dr_out = <<>>

\* one pass of the loop of line 736; the query has no ORDER BY
DeleteRinex ==
    /\ dr_pc = "running"
    /\ LET stn  == dr_args.stnlist[dr_i]
           rows == SelectForDelete(rinex, stn.NetworkCode, stn.StationCode, dr_args.start_date,
                                   dr_args.end_date, dr_args.completion_limit)
       IN \E order \in Orderings(rows) :
             LET st == DeleteLoop(order, 1,
                                  [rinex |-> rinex, raised |-> FALSE,
                                   out |-> Append(dr_out, <<"Deleting", Cardinality(rows), stn>>)],
                                  dr_args.fails)
             IN /\ rinex' = st.rinex
                /\ dr_out' = st.out
                /\ dr_pc' = IF st.raised THEN "raised"
                            ELSE IF dr_i = Len(dr_args.stnlist) THEN "done" ELSE "running"
                /\ dr_i' = IF st.raised THEN dr_i ELSE dr_i + 1
    /\ UNCHANGED <<dr_args, rinex0, archive, archive0, events>>
    /\ UNCHANGED notDelVars

\* ------------------------------------------------------------------------
\* Properties of DeleteRinex
\* ------------------------------------------------------------------------
\* the rows of the listed stations in the date range with Completion up to
\* the limit
RowsToDelete ==
    {r \in rinex0 : /\ \E i \in DOMAIN dr_args.stnlist : StationOf(r.NetworkCode, r.StationCode) = dr_args.stnlist[i]
                    /\ dr_args.start_date <= r.ObservationDOY /\ r.ObservationDOY <= dr_args.end_date
                    /\ r.Completion <= dr_args.completion_limit}

\* C29: every other row is left untouched; when DeleteRinex is over, every
\* row to delete whose removal did not fail is gone and every failure has
\* its line; and a failure does not end DeleteRinex
C29_DeletesRowsUpToLimit ==
    /\ (rinex0 \ RowsToDelete) \subseteq rinex
    /\ dr_pc # "raised"
    /\ dr_pc = "done" =>
          /\ rinex = rinex0 \ (RowsToDelete \ dr_args.fails)
          /\ \A r \in RowsToDelete \cap dr_args.fails :
                \E i \in DOMAIN dr_out : dr_out[i][1] = "Failed to delete"

\* ------------------------------------------------------------------------
\* Validation of an edited field (StationInfoEdit.py, Menu.validate)
\* ------------------------------------------------------------------------

\* a string is the sequence of its characters, so that upper() and float()
\* are computed character by character
LowerCase == <<"a", "b", "c", "d", "e", "f", "g", "h", "i", "j", "k", "l", "m", "n", "o", "p", "q", "r", "s", "t", "u", "v", "w", "x", "y", "z">>

UpperCase == <<"A", "B", "C", "D", "E", "F", "G", "H", "I", "J", "K", "L", "M", "N", "O", "P", "Q", "R", "S", "T", "U", "V", "W", "X", "Y", "Z">>

upper_char(c) ==
    IF \E k \in DOMAIN LowerCase : LowerCase[k] = c
    THEN UpperCase[CHOOSE k \in DOMAIN LowerCase : LowerCase[k] = c]
    ELSE c

lower_char(c) ==
    IF \E k \in DOMAIN UpperCase : UpperCase[k] = c
    THEN LowerCase[CHOOSE k \in DOMAIN UpperCase : UpperCase[k] = c]
    ELSE c

upper(s) == [i \in DOMAIN s |-> upper_char(s[i])]

lower(s) == [i \in DOMAIN s |-> lower_char(s[i])]

\* lines 261-262: the list HeightCode is compared with
HeightCodes ==
    {<<"D", "H", "T", "G", "P">>,
     <<"D", "H", "P", "A", "B">>,
     <<"S", "L", "B", "D", "N">>,
     <<"S", "L", "B", "C", "R">>,
     <<"S", "L", "T", "E", "P">>,
     <<"D", "H", "B", "C", "R">>,
     <<"S", "L", "H", "G", "P">>,
     <<"S", "L", "T", "G", "N">>,
     <<"D", "H", "A", "R", "P">>,
     <<"S", "L", "B", "C", "E">>}

DecimalDigits == {"0", "1", "2", "3", "4", "5", "6", "7", "8", "9"}

IsDigits(s) == Len(s) > 0 /\ \A i \in DOMAIN s : s[i] \in DecimalDigits

Unsigned(s) == IF Len(s) > 0 /\ s[1] \in {"+", "-"} THEN Tail(s) ELSE s

\* digits with at most one point and at least one digit
IsDecimal(s) ==
    LET points == {i \in DOMAIN s : s[i] = "."}
    IN /\ Cardinality(points) <= 1
       /\ \E i \in DOMAIN s : s[i] \in DecimalDigits
       /\ \A i \in DOMAIN s : s[i] \in DecimalDigits \cup {"."}

\* line 253: float(edit_field) returns for a decimal literal with an optional
\* sign and exponent, and for the spellings of not-a-number and infinity in
\* any case; it raises ValueError for everything else
float_returns(s) ==
    LET body == lower(Unsigned(s))
        exps == {i \in DOMAIN body : body[i] = "e"}
    IN \/ body \in {<<"n", "a", "n">>, <<"i", "n", "f">>, <<"i", "n", "f", "i", "n", "i", "t", "y">>}
       \/ /\ exps = {}
          /\ IsDecimal(body)
       \/ /\ Cardinality(exps) = 1
          /\ LET e == CHOOSE i \in exps : TRUE
             IN /\ IsDecimal(SubSeq(body, 1, e - 1))
                /\ IsDigits(Unsigned(SubSeq(body, e + 1, Len(body))))

\* what the user may type into an offset field
OffsetInputs ==
    {<<"1", ".", "5">>,
     <<"-", "0", ".", "0", "8">>,
     <<"2">>,
     <<"1", "e", "-", "3">>,
     <<".", "5">>,
     <<"a", "b", "c">>,
     <<"1", ",", "5">>,
     <<>>,
     <<"1", ".", "2", ".", "3">>,
     <<"-", "-", "1">>,
     <<"n", "a", "n">>,
     <<"-", "i", "n", "f">>,
     <<"N", "a", "N">>,
     <<"1", "e">>,
     <<"e", "5">>,
     <<".">>}

\* what the user may type into the HeightCode field
HeightCodeInputs ==
    {<<"D", "H", "A", "R", "P">>,
     <<"d", "h", "a", "r", "p">>,
     <<"S", "l", "B", "c", "R">>,
     <<"D", "H", "A", "R">>,
     <<"D", "H", "A", "R", "P", "X">>,
     <<"h", "a", "r", "p">>,
     <<>>}

\* what the user may type into AntennaCode, ReceiverCode and Comments
CodeInputs ==
    {<<"a", "n", "t">>, <<"A", "N", "T">>, <<"n", "o", "n", "e">>}

\* the codes of the tables antennas and receivers
antennas == {<<"A", "N", "T">>}

receivers == {<<"R", "C", "V">>}

\* the words a date may be typed with, and the number each one reads as;
\* every other word is not a number
DateWordTable ==
    {<<"2000", 2000>>, <<"2001", 2001>>, <<"1", 1>>, <<"001", 1>>, <<"0", 0>>, <<"00", 0>>,
     <<"12", 12>>, <<"400", 400>>, <<"25", 25>>, <<"9999", 9999>>, <<"999", 999>>}

word_value(w) ==
    IF \E p \in DateWordTable : p[1] = w
    THEN <<(CHOOSE p \in DateWordTable : p[1] = w)[2]>>
    ELSE <<>>

\* '%0wi' % v for the numbers of DateWordTable
PadTable ==
    {<<4, 2000, "2000">>, <<4, 2001, "2001">>, <<4, 9999, "9999">>,
     <<3, 1, "001">>, <<3, 12, "012">>, <<3, 999, "999">>,
     <<2, 0, "00">>, <<2, 1, "01">>, <<2, 12, "12">>}

Pad(w, v) == (CHOOSE p \in PadTable : p[1] = w /\ p[2] = v)[3]

\* pyDate.Date(stninfo=text): year, day of year, hour, minute and second, five
\* numbers in their ranges; anything else raises
parse_stninfo(text) ==
    IF /\ Len(text) = 5
       /\ \A i \in 1..5 : word_value(text[i]) # <<>>
       /\ word_value(text[2])[1] \in 1..366
       /\ word_value(text[3])[1] \in 0..23
       /\ word_value(text[4])[1] \in 0..59
       /\ word_value(text[5])[1] \in 0..59
    THEN <<[i \in 1..5 |-> word_value(text[i])[1]]>>
    ELSE <<>>

\* str() of a pyDate.Date built from station information text
Date_str(d) == <<Pad(4, d[1]), Pad(3, d[2]), Pad(2, d[3]), Pad(2, d[4]), Pad(2, d[5])>>

\* str(pyDate.Date(stninfo=None)): the open date
OpenDateText == <<"9999", "999", "00", "00", "00">>

\* what the user may type into a date field
DateInputs ==
    {<<>>,
     <<"2000", "1", "0", "0", "0">>,
     <<"2001", "012", "12", "00", "00">>,
     <<"2000", "1">>,
     <<"2000", "400", "0", "0", "0">>,
     <<"2000", "1", "25", "0", "0">>,
     <<"2000", "jan", "1", "0", "0">>}

\* lines 363-376: the fields of the edit menu that validate distinguishes,
\* in the order of the menu; "Save and exit" follows them (line 87)
ValFields ==
    <<"DateStart", "DateEnd", "AntennaHeight", "HeightCode", "AntennaNorth", "AntennaEast",
      "ReceiverCode", "AntennaCode", "Comments">>

FieldNames == {ValFields[i] : i \in DOMAIN ValFields}

\* the field of the selected item: items[position]['field']
FieldAt(position) == ValFields[position + 1]

\* what the text box may return for a field, after strip()
InputsOf(field) ==
    CASE field \in {"DateStart", "DateEnd"} -> DateInputs
      [] field \in {"AntennaEast", "AntennaNorth", "AntennaHeight"} -> OffsetInputs
      [] field = "HeightCode" -> HeightCodeInputs
      [] OTHER -> CodeInputs

Rejected == [ok |-> FALSE, value |-> <<>>]

Accepted(value) == [ok |-> TRUE, value |-> value]

\* lines 217-270 of validate: whether the text is accepted for the field and
\* the value that is stored for it
Menu_validate(field, edit_field) ==
    CASE field \in {"DateStart", "DateEnd"} ->
            IF edit_field = <<>> /\ field = "DateEnd"
            THEN Accepted(OpenDateText)
            ELSE IF parse_stninfo(edit_field) = <<>>
            THEN Rejected
            ELSE Accepted(Date_str(parse_stninfo(edit_field)[1]))
      [] field = "AntennaCode" ->
            IF upper(edit_field) \in antennas THEN Accepted(upper(edit_field)) ELSE Rejected
      [] field = "ReceiverCode" ->
            IF upper(edit_field) \in receivers THEN Accepted(upper(edit_field)) ELSE Rejected
      [] field \in {"AntennaEast", "AntennaNorth", "AntennaHeight"} ->
            IF float_returns(edit_field) THEN Accepted(edit_field) ELSE Rejected
      [] field = "HeightCode" ->
            IF upper(edit_field) \in HeightCodes THEN Accepted(upper(edit_field)) ELSE Rejected
      [] OTHER -> Accepted(upper(edit_field))

\* lines 97-102
navigate(position, n) ==
    IF position + n < 0 THEN 0
    ELSE IF position + n >= Len(ValFields) + 1 THEN Len(ValFields)
    ELSE position + n

\* lines 361-376: the values a new record is displayed with when the station
\* has no record yet
NewRecordItems ==
    [f \in FieldNames |->
        CASE f \in {"AntennaHeight", "AntennaNorth", "AntennaEast"} -> <<"0", ".", "0", "0", "0">>
          [] f = "HeightCode" -> <<"D", "H", "A", "R", "P">>
          [] OTHER -> <<>>]

\* line 93
NoEditedFields == [f \in FieldNames |-> <<>>]

ValidateIdle ==
    /\ val_items = <<>>
    /\ val_edited_fields = <<>>
    /\ val_position = 0
    /\ val_edit_field = <<>>
    /\ val_result = "none"
    /\ val_calls = 0

\* Menu.__init__ for the edit menu of a new record
ValidateStart ==
    /\ val_items = NewRecordItems
    /\ val_edited_fields = NoEditedFields
    /\ val_position = 0
    /\ val_edit_field = <<>>
    /\ val_result = "none"
    /\ val_calls = 0

\* lines 153-157 of display: the arrow keys
MenuNavigate ==
    /\ \E n \in {-1, 1} :
          /\ navigate(val_position, n) # val_position
          /\ val_position' = navigate(val_position, n)
    /\ UNCHANGED <<val_items, val_edited_fields, val_edit_field, val_result, val_calls>>
    /\ UNCHANGED notValVars

\* one round of the loop of enter_edit_mode, lines 204-209, with the call of
\* validate: an accepted text is stored in the item and in edited_fields and
\* the selection moves on, a rejected one leaves the menu as it was
enter_edit_mode ==
    /\ val_position < Len(ValFields)
    /\ val_calls < MaxValidations
    /\ \E edit_field \in InputsOf(FieldAt(val_position)) :
          LET field == FieldAt(val_position)
              res == Menu_validate(field, edit_field)
          IN /\ val_edit_field' = <<edit_field>>
             /\ IF res.ok
                THEN /\ val_edited_fields' = [val_edited_fields EXCEPT ![field] = <<res.value>>]
                     /\ val_items' = [val_items EXCEPT ![field] = res.value]
                     /\ val_result' = "True"
                     /\ val_position' = navigate(val_position, 1)
                ELSE /\ val_result' = "False"
                     /\ UNCHANGED <<val_items, val_edited_fields, val_position>>
    /\ val_calls' = val_calls + 1
    /\ UNCHANGED notValVars

\* ---- properties of validate ----

\* a decimal number: optional sign, digits with at most one point, optional
\* exponent
IsNumber(s) ==
    LET body == lower(Unsigned(s))
        exps == {i \in DOMAIN body : body[i] = "e"}
    IN IF exps = {} THEN IsDecimal(body)
       ELSE /\ Cardinality(exps) = 1
            /\ LET e == CHOOSE i \in exps : TRUE
               IN /\ IsDecimal(SubSeq(body, 1, e - 1))
                  /\ IsDigits(Unsigned(SubSeq(body, e + 1, Len(body))))

\* the texts the three kinds of field are to be accepted with
ValidText(field, text) ==
    CASE field = "HeightCode" -> upper(text) \in HeightCodes
      [] field \in {"AntennaEast", "AntennaNorth", "AntennaHeight"} -> IsNumber(text)
      [] field \in {"DateStart", "DateEnd"} ->
            \/ parse_stninfo(text) # <<>>
            \/ field = "DateEnd" /\ text = <<>>
      [] OTHER -> TRUE

\* validate was called in this step
ValidateCalled == val_calls' = val_calls + 1

\* C30: validate accepts a HeightCode only if it is one of the allowed codes
\* in any case, an offset only if it is numeric, a date only if it parses
\* (a blank DateEnd being the open date); a rejected text returns False and
\* leaves edited_fields and the displayed value as they were
C30_ValidateAcceptsOnlyValidFields ==
    [][ValidateCalled =>
          LET field == FieldAt(val_position)
              text == val_edit_field'[1]
          IN /\ val_result' = "True" => ValidText(field, text)
             /\ val_result' = "False" =>
                   /\ val_edited_fields' = val_edited_fields
                   /\ val_items' = val_items]_vars

\* ------------------------------------------------------------------------
\* Utils.copyfile called by two workers with the same destination
\* ------------------------------------------------------------------------
\* the two workers of the job server that call copyfile at the same time
CopyWorkers == {"w1", "w2"}

\* the source of each worker, in a directory of its own
CopySource ==
    [w \in CopyWorkers |->
        Path(IF w = "w1" THEN "incoming" ELSE "repository",
             FileName(<<"a", "b">>, 1, 0, 18, "d.Z"))]

\* the destination both workers pass
CopyDestination == Path("archive", FileName(<<"a", "b">>, 1, 0, 18, "d.Z"))

\* the bytes os.read(src_fd, 100) returns at an offset: one element of a
\* content stands for 100 bytes, nothing is returned at the end of the file
os_read(file, offset) ==
    IF offset < Len(file.content) THEN <<file.content[offset + 1]>> ELSE <<>>

\* os.write(dst_fd, data): the file with data after what it holds
os_write(file, data) == File(file.content \o data, 2)

TwoCopiesIdle ==
    /\ tc_fs = <<>>
    /\ tc_pc = [w \in CopyWorkers |-> "idle"]
    /\ tc_value = [w \in CopyWorkers |-> <<>>]
    /\ tc_dst = [w \in CopyWorkers |-> <<>>]
    /\ tc_ret = [w \in CopyWorkers |-> <<>>]
    /\ tc_created = {}

\* the two sources exist and have the same content; nothing is in the
\* archive; each worker is about to take the first name of its generator
TwoCopiesStart ==
    /\ \E content \in FileContents, t1 \in FileTimes, t2 \in FileTimes :
          tc_fs = WithFile(WithFile(<<>>, CopySource["w1"], File(content, t1)),
                           CopySource["w2"], File(content, t2))
    /\ tc_pc = [w \in CopyWorkers |-> "next"]
    /\ tc_value = [w \in CopyWorkers |-> <<>>]
    /\ tc_dst = [w \in CopyWorkers |-> <<>>]
    /\ tc_ret = [w \in CopyWorkers |-> <<>>]
    /\ tc_created = {}

\* line 164: dst = next(dst_gen)
WorkerNext(w) ==
    /\ tc_pc[w] = "next"
    /\ LET n == increment_filename_next(CopyDestination, tc_value[w])
       IN /\ tc_value' = [tc_value EXCEPT ![w] = n.value]
          /\ IF n.yield = <<>>
             THEN /\ tc_pc' = [tc_pc EXCEPT ![w] = "raised"]
                  /\ UNCHANGED tc_dst
             ELSE /\ tc_pc' = [tc_pc EXCEPT ![w] = "exists"]
                  /\ tc_dst' = [tc_dst EXCEPT ![w] = n.yield]
    /\ UNCHANGED <<tc_fs, tc_ret, tc_created>>
    /\ UNCHANGED notTcVars

\* lines 167-172: os.path.exists(dst) and filecmp.cmp(src, dst) on what the
\* file at dst holds at that moment
WorkerExists(w) ==
    /\ tc_pc[w] = "exists"
    /\ IF exists(tc_fs, tc_dst[w][1])
       THEN IF filecmp_cmp(tc_fs[CopySource[w]], tc_fs[tc_dst[w][1]])
            THEN /\ tc_pc' = [tc_pc EXCEPT ![w] = "returned"]
                 /\ tc_ret' = [tc_ret EXCEPT ![w] = tc_dst[w]]
            ELSE /\ tc_pc' = [tc_pc EXCEPT ![w] = "next"]
                 /\ UNCHANGED tc_ret
       ELSE /\ tc_pc' = [tc_pc EXCEPT ![w] = "open"]
            /\ UNCHANGED tc_ret
    /\ UNCHANGED <<tc_fs, tc_value, tc_dst, tc_created>>
    /\ UNCHANGED notTcVars

\* lines 186-187 and 206-209: os.open with O_WRONLY | O_EXCL | O_CREAT
\* creates an empty file, or gives OSError 17 when a file is there, which is
\* swallowed and leads to the next name
WorkerOpen(w) ==
    /\ tc_pc[w] = "open"
    /\ IF exists(tc_fs, tc_dst[w][1])
       THEN /\ tc_pc' = [tc_pc EXCEPT ![w] = "next"]
            /\ UNCHANGED <<tc_fs, tc_created>>
       ELSE /\ tc_fs' = WithFile(tc_fs, tc_dst[w][1], File(<<>>, 2))
            /\ tc_created' = tc_created \cup {tc_dst[w][1]}
            /\ tc_pc' = [tc_pc EXCEPT ![w] = "write"]
    /\ UNCHANGED <<tc_value, tc_dst, tc_ret>>
    /\ UNCHANGED notTcVars

\* lines 190-202: one round of the loop that reads 100 bytes and writes
\* them; the round that reads nothing ends the loop and dst is returned
WorkerWrite(w) ==
    /\ tc_pc[w] = "write"
    /\ LET dst == tc_dst[w][1]
           data == os_read(tc_fs[CopySource[w]], Len(tc_fs[dst].content))
       IN IF data = <<>>
          THEN /\ tc_pc' = [tc_pc EXCEPT ![w] = "returned"]
               /\ tc_ret' = [tc_ret EXCEPT ![w] = tc_dst[w]]
               /\ UNCHANGED tc_fs
          ELSE /\ tc_fs' = WithFile(tc_fs, dst, os_write(tc_fs[dst], data))
               /\ UNCHANGED <<tc_pc, tc_ret>>
    /\ UNCHANGED <<tc_value, tc_dst, tc_created>>
    /\ UNCHANGED notTcVars

\* both calls returned
BothReturned == \A w \in CopyWorkers : tc_pc[w] = "returned"

\* C39: when two workers call copyfile with sources of the same content and
\* the same destination, then however their existence checks, creates and
\* writes interleave, one file is created in the destination directory and
\* both calls return its path
C39_ConcurrentCopiesShareOneFile ==
    BothReturned =>
        /\ Cardinality(tc_created) = 1
        /\ \A w \in CopyWorkers : tc_ret[w] = <<CopyDestination>>

\* ------------------------------------------------------------------------
\* Specifications
\* ------------------------------------------------------------------------
Init == GapsIdle /\ CompareIdle /\ SerialStart /\ CatalogIdle /\ CheckIdle /\ DispatchIdle
           /\ StnIdle /\ RenameIdle /\ EditorIdle /\ TwoCopiesIdle /\ SerialListIdle /\ ValidateIdle /\ DeleteIdle /\ FilesIdle /\ StnCheckIdle /\ SpatialIdle

Next == SubmitJobs \/ JobCompletes \/ ReportDifferences

Spec == Init /\ [][Next]_vars

InitGaps == GapsStart /\ CompareIdle /\ SerialIdle /\ CatalogIdle /\ CheckIdle /\ DispatchIdle
               /\ StnIdle /\ RenameIdle /\ EditorIdle /\ TwoCopiesIdle /\ SerialListIdle /\ ValidateIdle /\ DeleteIdle /\ FilesIdle /\ StnCheckIdle /\ SpatialIdle

NextGaps == CallGetGaps \/ CallGetStnGaps

SpecGaps == InitGaps /\ [][NextGaps]_vars

InitCompare == GapsIdle /\ CompareStart /\ SerialIdle /\ CatalogIdle /\ CheckIdle /\ DispatchIdle
                  /\ StnIdle /\ RenameIdle /\ EditorIdle /\ TwoCopiesIdle /\ SerialListIdle /\ ValidateIdle /\ DeleteIdle /\ FilesIdle /\ StnCheckIdle /\ SpatialIdle

NextCompare == RunCompare

SpecCompare == InitCompare /\ [][NextCompare]_vars

InitCheck == GapsIdle /\ CompareIdle /\ SerialIdle /\ CheckStart /\ DispatchIdle /\ StnIdle /\ RenameIdle /\ EditorIdle /\ TwoCopiesIdle /\ SerialListIdle /\ ValidateIdle /\ DeleteIdle /\ FilesIdle /\ StnCheckIdle /\ SpatialIdle

NextCheck == RunCheckRinexStn

SpecCheck == InitCheck /\ [][NextCheck]_vars

InitDispatch == GapsIdle /\ CompareIdle /\ CheckIdle /\ DispatchStart /\ StnIdle /\ RenameIdle /\ EditorIdle /\ TwoCopiesIdle /\ SerialListIdle /\ ValidateIdle /\ DeleteIdle /\ FilesIdle /\ StnCheckIdle /\ SpatialIdle
                   /\ s_stninfo = {} /\ s_rnxtbl = {} /\ s_pending = {} /\ s_pc = "idle" /\ s_out = <<>>

NextDispatch == SubmitStations \/ JobStarts \/ JobReturns \/ JobRaises \/ JobCallback \/ WaitReturns

SpecDispatch == InitDispatch /\ [][NextDispatch]_vars

InitRename == GapsIdle /\ CompareIdle /\ SerialIdle /\ CheckIdle /\ DispatchIdle /\ RenameStart
                 /\ EditorIdle /\ TwoCopiesIdle /\ SerialListIdle /\ ValidateIdle /\ DeleteIdle /\ FilesIdle /\ StnCheckIdle /\ SpatialIdle

NextRename == RenameSelect \/ RenameBegin \/ RenameUpdate \/ RenameMakedirs \/ RenameMove
                 \/ RenameCommit \/ RenameStationInfo

SpecRename == InitRename /\ [][NextRename]_vars

InitStnInfo == GapsIdle /\ CompareIdle /\ SerialIdle /\ CheckIdle /\ DispatchIdle /\ RenameIdle
                  /\ EditorIdle /\ TwoCopiesIdle /\ SerialListIdle /\ ValidateIdle /\ DeleteIdle /\ FilesIdle /\ StnCheckIdle /\ SpatialIdle /\ StnInfoStart

NextStnInfo == EditorStart \/ selection_main_menu \/ EditorExit \/ validate \/ save_changes
                  \/ delete_record \/ EditorEscape \/ RenameCall \/ NextRename

SpecStnInfo == InitStnInfo /\ [][NextStnInfo]_vars

InitSpatial == GapsIdle /\ CompareIdle /\ SerialIdle /\ CatalogIdle /\ CheckIdle /\ DispatchIdle
                  /\ StnIdle /\ RenameIdle /\ EditorIdle /\ TwoCopiesIdle /\ SerialListIdle /\ ValidateIdle /\ DeleteIdle /\ FilesIdle /\ StnCheckIdle /\ SpatialStart

NextSpatial == RunCheckSpatialCoherence

SpecSpatial == InitSpatial /\ [][NextSpatial]_vars

InitStnCheck == GapsIdle /\ CompareIdle /\ SerialIdle /\ CatalogIdle /\ CheckIdle /\ DispatchIdle
                /\ RenameIdle /\ EditorIdle /\ TwoCopiesIdle /\ SerialListIdle /\ ValidateIdle /\ DeleteIdle /\ FilesIdle /\ SpatialIdle /\ StnCheckStart

NextStnCheck == StnInfoCheck

SpecStnCheck == InitStnCheck /\ [][NextStnCheck]_vars

InitFiles == GapsIdle /\ CompareIdle /\ SerialIdle /\ CatalogIdle /\ CheckIdle /\ DispatchIdle
                /\ StnIdle /\ RenameIdle /\ EditorIdle /\ TwoCopiesIdle /\ SerialListIdle /\ ValidateIdle /\ DeleteIdle /\ StnCheckIdle /\ SpatialIdle /\ FilesStart

NextFiles == CopyfileStart \/ CopyfileNext \/ CopyfileExists \/ CopyfileWrite \/ MoveRemove
                \/ OtherWorkerCreates

SpecFiles == InitFiles /\ [][NextFiles]_vars

InitDelete == GapsIdle /\ CompareIdle /\ SerialIdle /\ CheckIdle /\ DispatchIdle /\ StnIdle
                 /\ RenameIdle /\ EditorIdle /\ TwoCopiesIdle /\ SerialListIdle /\ ValidateIdle /\ StnCheckIdle /\ SpatialIdle /\ FilesIdle
                 /\ DeleteStart

NextDelete == DeleteRinex

SpecDelete == InitDelete /\ [][NextDelete]_vars

InitValidate == GapsIdle /\ CompareIdle /\ SerialIdle /\ CheckIdle /\ DispatchIdle /\ CatalogIdle
                   /\ StnIdle /\ RenameIdle /\ EditorIdle /\ TwoCopiesIdle /\ SerialListIdle /\ DeleteIdle /\ FilesIdle /\ StnCheckIdle
                   /\ SpatialIdle /\ ValidateStart

NextValidate == MenuNavigate \/ enter_edit_mode

SpecValidate == InitValidate /\ [][NextValidate]_vars

InitSerialList == GapsIdle /\ CompareIdle /\ SerialIdle /\ CatalogIdle /\ CheckIdle /\ DispatchIdle
                     /\ StnIdle /\ RenameIdle /\ EditorIdle /\ TwoCopiesIdle /\ ValidateIdle /\ DeleteIdle /\ FilesIdle
                     /\ StnCheckIdle /\ SpatialIdle /\ SerialListStart

NextSerialList == ListSubmitJobs \/ ListJobCompletes \/ ListReportDifferences

SpecSerialList == InitSerialList /\ [][NextSerialList]_vars

InitTwoCopies == GapsIdle /\ CompareIdle /\ SerialIdle /\ CatalogIdle /\ CheckIdle /\ DispatchIdle
                    /\ StnIdle /\ RenameIdle /\ EditorIdle /\ SerialListIdle /\ ValidateIdle /\ DeleteIdle
                    /\ FilesIdle /\ StnCheckIdle /\ SpatialIdle /\ TwoCopiesStart

NextTwoCopies == \E w \in CopyWorkers : WorkerNext(w) \/ WorkerExists(w) \/ WorkerOpen(w) \/ WorkerWrite(w)

SpecTwoCopies == InitTwoCopies /\ [][NextTwoCopies]_vars

====
